---- MODULE Spec2Model ----
(***************************************************************************)
(* cubi-tk "snappy itransfer": resolution of the landing zone, building    *)
(* of the transfer jobs and their execution by a thread pool, modelled     *)
(* from cubi_tk/snappy/itransfer_common.py.                                *)
(***************************************************************************)
EXTENDS Integers, Sequences, FiniteSets, TLC

VARIABLES
    args,            \* command line arguments (self.args)
    server_zones,    \* landing zones of the project, as landingzone.list_ returns them
    pc,              \* position of the main thread in execute()
    exc,             \* exception that left execute(), or None
    lz_uuid,         \* get_sodar_info: lz_uuid
    lz_irods_path,   \* get_sodar_info: lz_irods_path
    not_project_uuid,\* get_sodar_info: not_project_uuid
    asked,           \* questions put to the user with input(), with the answers
    calls,           \* calls made to the SODAR API, in order
    transfer_jobs,   \* execute: transfer_jobs, a tuple of TransferJob
    next_job,        \* index of the next job of the "for job in transfer_jobs" loop
    total_bytes,     \* execute: total_bytes
    counter,         \* the shared Value(c_ulonglong): its value and the owner of its lock
    t,               \* the tqdm progress bar: total and n
    pool,            \* the ThreadPool: its task queue and whether it is closed
    threads,         \* per thread (0 is the main thread): the job it runs and where it is
    stat,            \* per job: its state and the remote calls made for it
    faults,          \* failures of commands still to come
    fix_md5_files,   \* the command's class attribute fix_md5_files
    library_names,   \* the library names read from the sample sheet
    fs,              \* the local file system: size in bytes of every regular file
    todo_jobs,       \* _execute_md5_files_fix: todo_jobs
    ok_jobs,         \* _execute_md5_files_fix: ok_jobs
    md5_stat,        \* per todo job: its state and the md5sum commands run for it
    st_mtime,        \* the local file system: modification time of every path
    source_paths,    \* ingest, execute: source_paths, a list of spath and ipath
    output_paths,    \* ingest, process_md5_sums: output_paths
    collections,     \* ingest, execute: collections, the names of the sub-collections
    target_coll,     \* ingest: self.target_coll
    user_input       \* ingest, execute: user_input, what the user typed last

resolve_vars == <<lz_uuid, lz_irods_path, not_project_uuid, asked>>
ingest_vars == <<source_paths, output_paths, collections, target_coll, user_input>>
input_vars == <<args, server_zones, fix_md5_files, library_names, st_mtime, ingest_vars>>
md5_vars == <<todo_jobs, ok_jobs, md5_stat>>
run_vars == <<transfer_jobs, next_job, total_bytes, counter, t, pool, threads, stat,
              faults, fs, md5_vars>>
vars == <<args, server_zones, pc, exc, lz_uuid, lz_irods_path, not_project_uuid,
          asked, calls, transfer_jobs, next_job, total_bytes, counter, t, pool,
          threads, stat, faults, fix_md5_files, library_names, fs, todo_jobs,
          ok_jobs, md5_stat, st_mtime, ingest_vars>>

None == "None"

\* The ingest command has not run.
NoIngest ==
    /\ source_paths = <<>>
    /\ output_paths = <<>>
    /\ collections = <<>>
    /\ target_coll = None
    /\ user_input = ""

(***************************************************************************)
(* Bounds of the model.                                                    *)
(***************************************************************************)
MaxZones == 2
MaxDate == 2
MaxWorkers == 2
MaxFaults == 5
MaxRunFaults == 1
MaxFiles == 2
MaxRunFiles == 1

(***************************************************************************)
(* The remote service: projects, landing zones.                            *)
(***************************************************************************)
ProjectUuid == "project-1"
ZoneUuids == <<"lz-1", "lz-2", "lz-3", "lz-4">>
CreatedUuid == "lz-created"
Uuids == {ProjectUuid, CreatedUuid} \cup {ZoneUuids[i] : i \in 1..Len(ZoneUuids)}
Destinations == {ProjectUuid, "not-a-uuid"} \cup {ZoneUuids[i] : i \in 1..(MaxZones + 1)}

Statuses == {"ACTIVE", "FAILED", "MOVED"}
Assays == {"assay-1", "assay-2"}

IrodsPathOf(uuid) ==
    CASE uuid = "lz-1" -> "/sodarZone/landing_zones/lz-1"
      [] uuid = "lz-2" -> "/sodarZone/landing_zones/lz-2"
      [] uuid = "lz-3" -> "/sodarZone/landing_zones/lz-3"
      [] uuid = "lz-4" -> "/sodarZone/landing_zones/lz-4"
      [] OTHER -> "/sodarZone/landing_zones/lz-created"

ZoneAttrs == [status : Statuses, date_modified : 1..MaxDate, assay : Assays]

\* The zones of the runs that go on to the transfer: one date, one assay.
RunZoneAttrs == [status : Statuses, date_modified : {1}, assay : {"assay-1"}]

MkZone(i, a) ==
    [sodar_uuid |-> ZoneUuids[i], irods_path |-> IrodsPathOf(ZoneUuids[i]),
     status |-> a.status, date_modified |-> a.date_modified, assay |-> a.assay]

\* Every list of at most n landing zones the service may hold for the project.
ZoneListsOver(n, attrs) ==
    UNION {{[i \in 1..k |-> MkZone(i, f[i])] : f \in [1..k -> attrs]} : k \in 0..n}

ZoneLists(n) == ZoneListsOver(n, ZoneAttrs)

is_uuid(s) == s \in Uuids

(***************************************************************************)
(* get_latest_landing_zone                                                 *)
(***************************************************************************)
RECURSIVE InsertByDateModified(_, _)
InsertByDateModified(s, x) ==
    IF s = <<>> THEN <<x>>
    ELSE IF Head(s).date_modified >= x.date_modified
         THEN <<Head(s)>> \o InsertByDateModified(Tail(s), x)
         ELSE <<x>> \o s

\* sorted(..., key=lambda x: x.date_modified, reverse=True): stable, newest first.
RECURSIVE SortedByDateModified(_)
SortedByDateModified(s) ==
    IF s = <<>> THEN <<>>
    ELSE InsertByDateModified(SortedByDateModified(SubSeq(s, 1, Len(s) - 1)), s[Len(s)])

allowed_status == {"ACTIVE", "FAILED"}

FilterAssay(lzs, assay_uuid) ==
    IF assay_uuid # None
    THEN LET Keep(x) == x.assay = assay_uuid IN SelectSeq(lzs, Keep)
    ELSE lzs

FilterStatus(lzs) ==
    LET Keep(x) == x.status \in allowed_status IN SelectSeq(lzs, Keep)

\* lz = existing_lzs[-1]
PickZone(existing_lzs) == existing_lzs[Len(existing_lzs)]

GetLatestLandingZone(listed, assay_uuid) ==
    LET existing_lzs == FilterStatus(FilterAssay(SortedByDateModified(listed), assay_uuid))
    IN IF existing_lzs # <<>>
       THEN [lz_uuid |-> PickZone(existing_lzs).sodar_uuid,
             lz_irods_path |-> PickZone(existing_lzs).irods_path]
       ELSE [lz_uuid |-> None, lz_irods_path |-> None]

(***************************************************************************)
(* User input.                                                             *)
(***************************************************************************)
Replies == {"y", "Yes", "n", ""}

\* str.lower() left out.
LowerOmitted(s) == s

Lower(s) == IF s = "Yes" THEN "yes" ELSE s

\* Any answer taken as a yes.
StartsWithAnything(s) == TRUE

StartsWithY(s) == s \in {"y", "yes"}

\* input(...).lower().startswith("y")
Affirmative(reply) == StartsWithY(Lower(reply))

(***************************************************************************)
(* get_sodar_info, one action per remote call or question.                 *)
(***************************************************************************)
Raise(e) == pc' = "raised" /\ exc' = e

\* Lines 276-286: initialise, branch on is_uuid and on args.yes.
GsiStart ==
    /\ pc = "get_sodar_info"
    /\ lz_uuid' = None
    /\ lz_irods_path' = None
    /\ not_project_uuid' = FALSE
    /\ pc' = IF ~is_uuid(args.destination) THEN "gsi_check"
             ELSE IF args.yes THEN "gsi_yes_latest" ELSE "gsi_latest"
    /\ UNCHANGED <<input_vars, exc, asked, calls, run_vars>>

\* Outcomes of landingzone.list_ for the destination, taken as a project.
ListOutcomes ==
    IF args.destination = ProjectUuid THEN {"ok", "HTTPError"} ELSE {"HTTPError"}

\* Outcomes of landingzone.retrieve for the destination, taken as a landing zone.
RetrieveOutcomes ==
    IF \E i \in 1..Len(server_zones) : server_zones[i].sodar_uuid = args.destination
    THEN {"ok", "HTTPError"} ELSE {"HTTPError"}

CreateOutcomes ==
    IF args.destination = ProjectUuid THEN {"ok", "HTTPError"} ELSE {"HTTPError"}

\* The creation of line 298 never reached.
NoPathFoundNever(path) == FALSE

\* "if not lz_irods_path" of line 293.
NoPathFound(path) == path = None

\* The error taken as in lines 318-324: the destination may be a landing zone.
LookupErrorSwallowed == pc' = "gsi_by_uuid" /\ exc' = exc

\* Lines 301-307: the HTTP error of the lookup is logged and raised again.
LookupErrorRaised == Raise("HTTPError")

\* Lines 289-297 and 301-307: args.yes, look the latest zone up.
GsiYesLatest ==
    /\ pc = "gsi_yes_latest"
    /\ calls' = Append(calls, "list")
    /\ \E outcome \in ListOutcomes :
         IF outcome = "ok"
         THEN LET r == GetLatestLandingZone(server_zones, args.assay) IN
              /\ lz_uuid' = r.lz_uuid
              /\ lz_irods_path' = r.lz_irods_path
              /\ pc' = IF NoPathFound(r.lz_irods_path) THEN "gsi_yes_create" ELSE "gsi_check"
              /\ exc' = exc
         ELSE /\ LookupErrorRaised
              /\ UNCHANGED <<lz_uuid, lz_irods_path>>
    /\ UNCHANGED <<input_vars, not_project_uuid, asked, run_vars>>

\* The creation requested a second time before the answer is looked at.
CreateLandingZoneTwice(next_pc) ==
    /\ calls' = calls \o <<"create", "create">>
    /\ lz_uuid' = CreatedUuid
    /\ lz_irods_path' = IrodsPathOf(CreatedUuid)
    /\ pc' = next_pc
    /\ exc' = exc

\* create_landing_zone, lines 434-454: the call and what it returns.
CreateLandingZone(next_pc) ==
    /\ calls' = Append(calls, "create")
    /\ \E outcome \in CreateOutcomes :
         IF outcome = "ok"
         THEN /\ lz_uuid' = CreatedUuid
              /\ lz_irods_path' = IrodsPathOf(CreatedUuid)
              /\ pc' = next_pc
              /\ exc' = exc
         ELSE /\ Raise("HTTPError")
              /\ UNCHANGED <<lz_uuid, lz_irods_path>>

\* Lines 298-300 and 301-307: args.yes and no zone found, create one.
GsiYesCreate ==
    /\ pc = "gsi_yes_create"
    /\ CreateLandingZone("gsi_check")
    /\ UNCHANGED <<input_vars, not_project_uuid, asked, run_vars>>

\* The user asked whatever the lookup of the project's zones gave.
RequestsInputAlways(npu) == TRUE

\* "if not not_project_uuid" of line 339.
RequestsInput(npu) == ~npu

\* Lines 339, 342 and 368: where get_sodar_info goes on once the lookups are done.
AfterLookups(npu, path) ==
    IF RequestsInput(npu)
    THEN IF path # None THEN "gsi_ask_use" ELSE "gsi_ask_create"
    ELSE "gsi_check"

\* Lines 312-322: not args.yes, look the latest zone up.
GsiLatest ==
    /\ pc = "gsi_latest"
    /\ calls' = Append(calls, "list")
    /\ \E outcome \in ListOutcomes :
         IF outcome = "ok"
         THEN LET r == GetLatestLandingZone(server_zones, args.assay) IN
              /\ lz_uuid' = r.lz_uuid
              /\ lz_irods_path' = r.lz_irods_path
              /\ not_project_uuid' = FALSE
              /\ pc' = AfterLookups(FALSE, r.lz_irods_path)
         ELSE /\ not_project_uuid' = TRUE
              /\ pc' = "gsi_by_uuid"
              /\ UNCHANGED <<lz_uuid, lz_irods_path>>
    /\ UNCHANGED <<input_vars, exc, asked, run_vars>>

\* Lines 326-335 with get_landing_zone_by_uuid, lines 418-432.
GsiByUuid ==
    /\ pc = "gsi_by_uuid"
    /\ calls' = Append(calls, "retrieve")
    /\ lz_uuid' = args.destination
    /\ \E outcome \in RetrieveOutcomes :
         IF outcome = "ok"
         THEN lz_irods_path' = IrodsPathOf(args.destination)
         ELSE lz_irods_path' = lz_irods_path
    /\ pc' = AfterLookups(not_project_uuid, lz_irods_path')
    /\ UNCHANGED <<input_vars, exc, not_project_uuid, asked, run_vars>>

\* Lines 342-352: a zone was found, ask whether to use it.
GsiAskUse ==
    /\ pc = "gsi_ask_use"
    /\ \E reply \in Replies :
         /\ asked' = Append(asked, <<"use", reply>>)
         /\ pc' = IF ~Affirmative(reply) THEN "gsi_ask_create" ELSE "gsi_check"
    /\ UNCHANGED <<input_vars, exc, lz_uuid, lz_irods_path, not_project_uuid, calls, run_vars>>

\* The refusal logged, and the resolution going on to line 385.
DeclinedGoesOn == pc' = "gsi_check" /\ exc' = exc

\* Lines 361-364 and 378-381: the user declined.
Declined == Raise("UserCanceledException")

\* Lines 353-357, 361-364 and 370-374, 378-381: ask whether to create a zone.
GsiAskCreate ==
    /\ pc = "gsi_ask_create"
    /\ \E reply \in Replies :
         /\ asked' = Append(asked, <<"create", reply>>)
         /\ IF Affirmative(reply)
            THEN pc' = "gsi_create" /\ exc' = exc
            ELSE Declined
    /\ UNCHANGED <<input_vars, lz_uuid, lz_irods_path, not_project_uuid, calls, run_vars>>

\* Lines 358-360 and 375-377: create the zone the user agreed to.
GsiCreate ==
    /\ pc = "gsi_create"
    /\ CreateLandingZone("gsi_check")
    /\ UNCHANGED <<input_vars, not_project_uuid, asked, run_vars>>

\* The check of line 385 never failing.
PathIsNoneNever(path) == FALSE

\* "if lz_irods_path is None" of line 385.
PathIsNone(path) == path = None

\* Lines 385-396: no path, no result.
GsiCheck ==
    /\ pc = "gsi_check"
    /\ IF PathIsNone(lz_irods_path)
       THEN Raise("ParameterException")
       ELSE pc' = "build_jobs" /\ exc' = exc
    /\ UNCHANGED <<input_vars, lz_uuid, lz_irods_path, not_project_uuid, asked, calls, run_vars>>

(***************************************************************************)
(* TransferJob and the shared state of a run.                              *)
(***************************************************************************)
\* retry(stop_max_attempt_number=5) of irsync_transfer and of _wait_until_ils_succeeds
stop_max_attempt_number == 5
ils_stop_max_attempt_number == 5

NoJob == 0
MainThread == 0
IdleThread == [job |-> NoJob, pc |-> "idle", attempt |-> 0, ils_attempt |-> 0, read |-> 0]
NewStat ==
    [state |-> "new", applied |-> 0, starts |-> 0, imkdir |-> 0, ils |-> 0, irsync |-> 0,
     added |-> 0]
NoPool == [taskqueue |-> <<>>, state |-> "none"]

Workers == 1..args.num_parallel_transfers

RECURSIVE SumBytes(_)
SumBytes(jobs) == IF jobs = <<>> THEN 0 ELSE Head(jobs).bytes + SumBytes(Tail(jobs))

\* A remote command succeeds (TRUE) or fails with a SubprocessError (FALSE).
CommandOutcomes == IF faults > 0 THEN {TRUE, FALSE} ELSE {TRUE}

(***************************************************************************)
(* execute, lines 578-606: the main thread.                                *)
(***************************************************************************)
\* The counter keeps the value it has.
InitialValueKept == counter.value

\* Line 584: Value(c_ulong, 0).
InitialValue == 0

\* Lines 578-586 and 590: total_bytes, a fresh counter, the progress bar, the pool.
TransferStart ==
    /\ pc = "transfer"
    /\ total_bytes' = SumBytes(transfer_jobs)
    /\ counter' = [value |-> InitialValue, lock |-> {}]
    /\ t' = [total |-> SumBytes(transfer_jobs), n |-> 0]
    /\ next_job' = 1
    /\ stat' = [j \in 1..Len(transfer_jobs) |-> NewStat]
    /\ threads' = [w \in {MainThread} \cup Workers |-> IdleThread]
    /\ IF args.num_parallel_transfers = 0
       THEN pc' = "for_job" /\ pool' = NoPool
       ELSE pc' = "apply_async" /\ pool' = [taskqueue |-> <<>>, state |-> "open"]
    /\ UNCHANGED <<input_vars, exc, resolve_vars, calls, transfer_jobs, faults, fs,
                   md5_vars>>

\* A thread enters irsync_transfer(job, counter, t), first attempt.
Enter(ths, w, j) ==
    [ths EXCEPT ![w] = [job |-> j, pc |-> "imkdir", attempt |-> 1, ils_attempt |-> 0,
                        read |-> 0]]

Started(st, j) == [st EXCEPT ![j].state = "running", ![j].starts = @ + 1]

\* Lines 587-588, num_parallel_transfers == 0: the main thread runs the next job
\* itself, or leaves the loop.
ForJob ==
    /\ pc = "for_job"
    /\ threads[MainThread].pc = "idle"
    /\ IF next_job <= Len(transfer_jobs)
       THEN /\ threads' = Enter(threads, MainThread, next_job)
            /\ stat' = Started(stat, next_job)
            /\ next_job' = next_job + 1
            /\ pc' = pc
       ELSE /\ pc' = "move"
            /\ UNCHANGED <<threads, stat, next_job>>
    /\ UNCHANGED <<input_vars, exc, resolve_vars, calls, transfer_jobs,
                   total_bytes, counter, t, pool, faults, fs, md5_vars>>

\* Lines 591-593: hand the next job to the pool, or close the pool.
ApplyAsync ==
    /\ pc = "apply_async"
    /\ IF next_job <= Len(transfer_jobs)
       THEN /\ pool' = [pool EXCEPT !.taskqueue = Append(@, next_job)]
            /\ stat' = [stat EXCEPT ![next_job].state = "queued", ![next_job].applied = @ + 1]
            /\ next_job' = next_job + 1
            /\ pc' = pc
       ELSE /\ pool' = [pool EXCEPT !.state = "closed"]
            /\ pc' = "join"
            /\ UNCHANGED <<stat, next_job>>
    /\ UNCHANGED <<input_vars, exc, resolve_vars, calls, transfer_jobs,
                   total_bytes, counter, t, threads, faults, fs, md5_vars>>

\* pool.join() returning at once.
PoolDoneAlways(p, ths) == TRUE

\* pool.join() of lines 529 and 594 returns once the workers have run every task.
PoolDone(p, ths) == p.taskqueue = <<>> /\ \A w \in Workers : ths[w].pc = "idle"

\* Line 594.
Join ==
    /\ pc = "join"
    /\ PoolDone(pool, threads)
    /\ pc' = "move"
    /\ UNCHANGED <<input_vars, exc, resolve_vars, calls, run_vars>>

\* The zone moved whatever the flag says.
MovesZoneAlways(uuid, flag) == TRUE

\* "if lz_uuid and self.args.validate_and_move" of line 600.
MovesZone(uuid, flag) == uuid # None /\ flag

\* Lines 600-606 with move_landing_zone, lines 398-416.
Move ==
    /\ pc = "move"
    /\ IF MovesZone(lz_uuid, args.validate_and_move)
       THEN /\ calls' = Append(calls, "submit_move")
            /\ \E outcome \in {"ok", "HTTPError"} :
                 IF outcome = "ok" THEN pc' = "done" /\ exc' = exc
                 ELSE Raise("HTTPError")
       ELSE pc' = "done" /\ UNCHANGED <<exc, calls>>
    /\ UNCHANGED <<input_vars, resolve_vars, run_vars>>

(***************************************************************************)
(* The pool's workers.                                                     *)
(***************************************************************************)
\* A worker takes a task whatever it is doing.
FirstIdleOrBusy(w) == TRUE

\* The workers are alike: of the idle ones, the first takes the task.
FirstIdle(w) == threads[w].pc = "idle" /\ \A v \in 1..(w - 1) : threads[v].pc # "idle"

\* An idle worker takes the oldest task of the queue.
TakeTask(w) ==
    /\ pc \in {"apply_async", "join"}
    /\ FirstIdle(w)
    /\ pool.taskqueue # <<>>
    /\ threads' = Enter(threads, w, Head(pool.taskqueue))
    /\ stat' = Started(stat, Head(pool.taskqueue))
    /\ pool' = [pool EXCEPT !.taskqueue = Tail(@)]
    /\ UNCHANGED <<input_vars, pc, exc, resolve_vars, calls, transfer_jobs,
                   next_job, total_bytes, counter, t, faults, fs, md5_vars>>

(***************************************************************************)
(* irsync_transfer, lines 54-80, run by thread w.                          *)
(***************************************************************************)
\* The exception of the job dropped in the main thread too.
RaisedDropped(w, st) ==
    /\ threads' = [threads EXCEPT ![w] = IdleThread]
    /\ stat' = [st EXCEPT ![threads[w].job].state = "error"]
    /\ UNCHANGED <<pc, exc>>

\* The exception leaves irsync_transfer: in the main thread it leaves execute();
\* in a worker it is stored in the AsyncResult that apply_async returned, which
\* line 592 drops.
Raised(w, st) ==
    /\ threads' = [threads EXCEPT ![w] = IdleThread]
    /\ stat' = [st EXCEPT ![threads[w].job].state = "error"]
    /\ IF w = MainThread
       THEN Raise("SubprocessError")
       ELSE UNCHANGED <<pc, exc>>

\* No retry: the first failure leaves irsync_transfer.
AttemptFailedOnce(w, st) == Raised(w, st)

\* @retry of line 54: another attempt of the whole function unless it was the last.
AttemptFailed(w, st) ==
    IF threads[w].attempt >= stop_max_attempt_number
    THEN Raised(w, st)
    ELSE /\ threads' = [threads EXCEPT ![w].attempt = @ + 1, ![w].pc = "imkdir",
                                       ![w].ils_attempt = 0]
         /\ stat' = st
         /\ UNCHANGED <<pc, exc>>

\* The transfer right after imkdir.
AfterImkdirIrsync == "irsync"

\* Line 65 follows line 60: once imkdir succeeded, wait for ils.
AfterImkdir == "ils"

\* Lines 57-63: imkdir -p.
Imkdir(w) ==
    /\ threads[w].pc = "imkdir"
    /\ \E ok \in CommandOutcomes :
         LET st == [stat EXCEPT ![threads[w].job].imkdir = @ + 1] IN
         IF ok
         THEN /\ threads' = [threads EXCEPT ![w].pc = AfterImkdir, ![w].ils_attempt = 1]
              /\ stat' = st
              /\ UNCHANGED <<pc, exc, faults>>
         ELSE /\ AttemptFailed(w, st)
              /\ faults' = faults - 1
    /\ UNCHANGED <<input_vars, resolve_vars, calls, transfer_jobs, next_job,
                   total_bytes, counter, t, pool, fs, md5_vars>>

\* One ils too many.
IlsRetriesOnceMore(attempt) == attempt <= ils_stop_max_attempt_number

\* @retry of line 49: another ils unless it was the last attempt.
IlsRetries(attempt) == attempt < ils_stop_max_attempt_number

\* Line 65 with _wait_until_ils_succeeds, lines 49-51.
Ils(w) ==
    /\ threads[w].pc = "ils"
    /\ \E ok \in CommandOutcomes :
         LET st == [stat EXCEPT ![threads[w].job].ils = @ + 1] IN
         IF ok
         THEN /\ threads' = [threads EXCEPT ![w].pc = "irsync"]
              /\ stat' = st
              /\ UNCHANGED <<pc, exc, faults>>
         ELSE /\ faults' = faults - 1
              /\ IF IlsRetries(threads[w].ils_attempt)
                 THEN /\ threads' = [threads EXCEPT ![w].ils_attempt = @ + 1]
                      /\ stat' = st
                      /\ UNCHANGED <<pc, exc>>
                 ELSE AttemptFailed(w, st)
    /\ UNCHANGED <<input_vars, resolve_vars, calls, transfer_jobs, next_job,
                   total_bytes, counter, t, pool, fs, md5_vars>>

\* Lines 67-73: irsync -a -K.
Irsync(w) ==
    /\ threads[w].pc = "irsync"
    /\ \E ok \in CommandOutcomes :
         LET st == [stat EXCEPT ![threads[w].job].irsync = @ + 1] IN
         IF ok
         THEN /\ threads' = [threads EXCEPT ![w].pc = "get_lock"]
              /\ stat' = st
              /\ UNCHANGED <<pc, exc, faults>>
         ELSE /\ AttemptFailed(w, st)
              /\ faults' = faults - 1
    /\ UNCHANGED <<input_vars, resolve_vars, calls, transfer_jobs, next_job,
                   total_bytes, counter, t, pool, fs, md5_vars>>

\* The lock is taken whoever holds it.
LockFreeAlways(c) == TRUE

LockFree(c) == c.lock = {}

\* Line 75: with counter.get_lock().
GetLock(w) ==
    /\ threads[w].pc = "get_lock"
    /\ LockFree(counter)
    /\ counter' = [counter EXCEPT !.lock = @ \cup {w}]
    /\ threads' = [threads EXCEPT ![w].pc = "read_value"]
    /\ UNCHANGED <<input_vars, pc, exc, resolve_vars, calls, transfer_jobs,
                   next_job, total_bytes, t, pool, stat, faults, fs, md5_vars>>

\* Line 76, the read of "counter.value += job.bytes".
ReadValue(w) ==
    /\ threads[w].pc = "read_value"
    /\ threads' = [threads EXCEPT ![w].read = counter.value, ![w].pc = "write_value"]
    /\ UNCHANGED <<input_vars, pc, exc, resolve_vars, calls, transfer_jobs,
                   next_job, total_bytes, counter, t, pool, stat, faults, fs, md5_vars>>

\* Lines 76-80: the write of "counter.value += job.bytes", t.update(counter.value),
\* the release of the lock, and the return.
WriteValue(w) ==
    /\ threads[w].pc = "write_value"
    /\ LET value == threads[w].read + transfer_jobs[threads[w].job].bytes IN
         /\ counter' = [value |-> value, lock |-> counter.lock \ {w}]
         /\ t' = [t EXCEPT !.n = @ + value]
    /\ stat' = [stat EXCEPT ![threads[w].job].state = "ok", ![threads[w].job].added = @ + 1]
    /\ threads' = [threads EXCEPT ![w] = IdleThread]
    /\ UNCHANGED <<input_vars, pc, exc, resolve_vars, calls, transfer_jobs,
                   next_job, total_bytes, pool, faults, fs, md5_vars>>

IrsyncTransfer(w) ==
    \/ Imkdir(w)
    \/ Ils(w)
    \/ Irsync(w)
    \/ GetLock(w)
    \/ ReadValue(w)
    \/ WriteValue(w)

(***************************************************************************)
(* The local file system and build_jobs, lines 219-263.                    *)
(*                                                                         *)
(* A path is <<library, file, ext>>: the file-th data file of the          *)
(* library's directory (ext 0) or its ".md5" sidecar (ext 1); the order of *)
(* the tuples is the order of the path strings.                            *)
(***************************************************************************)
Md5Bytes == 1

Libraries == {1}

\* The paths of a directory of at most n data files and their sidecars.
PathsOf(n) == Libraries \X (1..n) \X {0, 1}

Md5Of(path) == <<path[1], path[2], 1>>
DataOf(path) == <<path[1], path[2], 0>>
EndsWithMd5(path) == path[3] = 1

Exists(files, path) == path \in DOMAIN files
GetSize(files, path) == files[path]

\* The file-th data file holds file + 1 bytes, a sidecar Md5Bytes.
BytesOf(path) == IF EndsWithMd5(path) THEN Md5Bytes ELSE path[2] + 1

\* Every file system over PathsOf(n).
FileSystemsOf(n) == {[q \in P |-> BytesOf(q)] : P \in SUBSET PathsOf(n)}

\* glob.glob(pattern): what the library's directory holds.
GlobResults(files, library_name) == {q \in DOMAIN files : q[1] = library_name}

RECURSIVE TupleLess(_, _)
TupleLess(a, b) ==
    IF a = <<>> \/ b = <<>> THEN a = <<>> /\ b # <<>>
    ELSE IF Head(a) # Head(b) THEN Head(a) < Head(b)
    ELSE TupleLess(Tail(a), Tail(b))

\* The order attr.s gives TransferJob: by (path_src, path_dest, bytes, command).
JobLess(a, b) ==
    IF a.path_src # b.path_src THEN TupleLess(a.path_src, b.path_src)
    ELSE IF a.path_dest # b.path_dest THEN TupleLess(a.path_dest.rel, b.path_dest.rel)
    ELSE a.bytes < b.bytes

RECURSIVE InsertJob(_, _)
InsertJob(s, x) ==
    IF s = <<>> THEN <<x>>
    ELSE IF JobLess(x, Head(s)) THEN <<x>> \o s
    ELSE <<Head(s)>> \o InsertJob(Tail(s), x)

\* The jobs as appended, unsorted.
Unsorted(jobs) == jobs

RECURSIVE SortJobs(_)
SortJobs(jobs) ==
    IF jobs = <<>> THEN <<>>
    ELSE InsertJob(SortJobs(SubSeq(jobs, 1, Len(jobs) - 1)), jobs[Len(jobs)])

\* sorted(transfer_jobs)
Sorted(jobs) == SortJobs(jobs)

\* Lines 251-262: the job of real_result + ext.
MkJob(files, path, irods_path) ==
    [path_src |-> path,
     path_dest |-> [lz |-> irods_path, rel |-> path],
     bytes |-> IF Exists(files, path) THEN GetSize(files, path) ELSE 0,
     command |-> None]

\* Lines 231-262 for one glob result: nothing for a sidecar, else the two jobs.
JobsOf(files, path, irods_path) ==
    IF EndsWithMd5(path) THEN <<>>
    ELSE <<MkJob(files, path, irods_path), MkJob(files, Md5Of(path), irods_path)>>

\* The sidecars never looked for.
MissingMd5Never(files, path, fix) == FALSE

\* Lines 247-250: a data file without sidecar, and the sidecars are not made here.
MissingMd5(files, path, fix) ==
    ~EndsWithMd5(path) /\ ~Exists(files, Md5Of(path)) /\ ~fix

RECURSIVE AppendJobs(_, _, _)
AppendJobs(files, results, irods_path) ==
    IF results = <<>> THEN <<>>
    ELSE JobsOf(files, Head(results), irods_path) \o AppendJobs(files, Tail(results), irods_path)

\* Every order in which glob may yield the elements of the set S.
RECURSIVE Orders(_)
Orders(S) ==
    IF S = {} THEN {<<>>}
    ELSE UNION {{<<x>> \o r : r \in Orders(S \ {x})} : x \in S}

\* Every order in which the libraries' directories may be listed.
RECURSIVE GlobOrders(_, _)
GlobOrders(files, names) ==
    IF names = <<>> THEN {<<>>}
    ELSE {r \o rest : r \in Orders(GlobResults(files, Head(names))),
                      rest \in GlobOrders(files, Tail(names))}

\* Lines 225-263, after get_sodar_info returned.
BuildJobs ==
    /\ pc = "build_jobs"
    /\ \E results \in GlobOrders(fs, library_names) :
         IF \E k \in 1..Len(results) : MissingMd5(fs, results[k], fix_md5_files)
         THEN /\ Raise("MissingFileException")
              /\ UNCHANGED transfer_jobs
         ELSE /\ transfer_jobs' = Sorted(AppendJobs(fs, results, lz_irods_path))
              /\ pc' = IF fix_md5_files THEN "fix_md5" ELSE "transfer"
              /\ exc' = exc
    /\ UNCHANGED <<input_vars, resolve_vars, calls, next_job, total_bytes, counter, t,
                   pool, threads, stat, faults, fs, md5_vars>>

(***************************************************************************)
(* _execute_md5_files_fix, lines 499-541, and compute_md5sum, 679-704.     *)
(***************************************************************************)
SelectTodo(files, jobs) ==
    LET Missing(j) == ~Exists(files, j.path_src) IN SelectSeq(jobs, Missing)

SelectOk(files, jobs) ==
    LET Present(j) == Exists(files, j.path_src) IN SelectSeq(jobs, Present)

RECURSIVE SumDataSizes(_, _)
SumDataSizes(files, jobs) ==
    IF jobs = <<>> THEN 0
    ELSE GetSize(files, DataOf(Head(jobs).path_src)) + SumDataSizes(files, Tail(jobs))

NewMd5Stat == [state |-> "new", applied |-> 0, starts |-> 0, md5sum |-> 0, added |-> 0]

\* Lines 503-525: the partition, total_bytes, a fresh counter, the pool.
FixMd5Start ==
    /\ pc = "fix_md5"
    /\ todo_jobs' = SelectTodo(fs, transfer_jobs)
    /\ ok_jobs' = SelectOk(fs, transfer_jobs)
    /\ md5_stat' = [j \in 1..Len(SelectTodo(fs, transfer_jobs)) |-> NewMd5Stat]
    /\ counter' = [value |-> 0, lock |-> {}]
    /\ t' = [total |-> SumDataSizes(fs, SelectTodo(fs, transfer_jobs)), n |-> 0]
    /\ next_job' = 1
    /\ threads' = [w \in {MainThread} \cup Workers |-> IdleThread]
    /\ IF args.num_parallel_transfers = 0
       THEN pc' = "md5_for_job" /\ pool' = NoPool
       ELSE pc' = "md5_apply_async" /\ pool' = [taskqueue |-> <<>>, state |-> "open"]
    /\ UNCHANGED <<input_vars, exc, resolve_vars, calls, transfer_jobs, total_bytes,
                   stat, faults, fs>>

EnterMd5(ths, w, j) ==
    [ths EXCEPT ![w] = [job |-> j, pc |-> "md5_open", attempt |-> 1, ils_attempt |-> 0,
                        read |-> 0]]

\* The size of the sidecar itself.
Md5IncrementSidecar(files, job) == GetSize(files, job.path_src)

\* Line 700: os.path.getsize(job.path_src[: -len(".md5")]).
Md5Increment(files, job) == GetSize(files, DataOf(job.path_src))

\* The job kept with the size it was built with.
DoneJobSameSize(files, j) == j

\* Lines 533-538: the job again, with the size its source has now.
DoneJob(files, j) == [j EXCEPT !.bytes = GetSize(files, j.path_src)]

\* Only the jobs whose checksum was computed are returned.
MergedDoneOnly(done_jobs, ok) == done_jobs

\* Line 540: done_jobs + ok_jobs.
Merged(done_jobs, ok) == done_jobs \o ok

\* Lines 532-541: the sizes of the sidecars, the jobs merged and sorted.
FixMd5Finish ==
    IF \E k \in 1..Len(todo_jobs) : ~Exists(fs, todo_jobs[k].path_src)
    THEN /\ Raise("FileNotFoundError")
         /\ UNCHANGED transfer_jobs
    ELSE /\ transfer_jobs' =
              Sorted(Merged([k \in 1..Len(todo_jobs) |-> DoneJob(fs, todo_jobs[k])], ok_jobs))
         /\ pc' = "transfer"
         /\ exc' = exc

\* Lines 521-523 and 532-541, num_parallel_transfers == 0.
Md5ForJob ==
    /\ pc = "md5_for_job"
    /\ threads[MainThread].pc = "idle"
    /\ IF next_job <= Len(todo_jobs)
       THEN /\ threads' = EnterMd5(threads, MainThread, next_job)
            /\ md5_stat' = Started(md5_stat, next_job)
            /\ next_job' = next_job + 1
            /\ UNCHANGED <<pc, exc, transfer_jobs>>
       ELSE /\ FixMd5Finish
            /\ UNCHANGED <<threads, md5_stat, next_job>>
    /\ UNCHANGED <<input_vars, resolve_vars, calls, total_bytes, counter, t, pool, stat,
                   faults, fs, todo_jobs, ok_jobs>>

\* Lines 526-528.
Md5ApplyAsync ==
    /\ pc = "md5_apply_async"
    /\ IF next_job <= Len(todo_jobs)
       THEN /\ pool' = [pool EXCEPT !.taskqueue = Append(@, next_job)]
            /\ md5_stat' = [md5_stat EXCEPT ![next_job].state = "queued",
                                            ![next_job].applied = @ + 1]
            /\ next_job' = next_job + 1
            /\ pc' = pc
       ELSE /\ pool' = [pool EXCEPT !.state = "closed"]
            /\ pc' = "md5_join"
            /\ UNCHANGED <<md5_stat, next_job>>
    /\ UNCHANGED <<input_vars, exc, resolve_vars, calls, transfer_jobs, total_bytes,
                   counter, t, threads, stat, faults, fs, todo_jobs, ok_jobs>>

\* Lines 529 and 532-541.
Md5Join ==
    /\ pc = "md5_join"
    /\ PoolDone(pool, threads)
    /\ FixMd5Finish
    /\ UNCHANGED <<input_vars, resolve_vars, calls, next_job, total_bytes, counter, t,
                   pool, threads, stat, faults, fs, md5_vars>>

Md5TakeTask(w) ==
    /\ pc \in {"md5_apply_async", "md5_join"}
    /\ FirstIdle(w)
    /\ pool.taskqueue # <<>>
    /\ threads' = EnterMd5(threads, w, Head(pool.taskqueue))
    /\ md5_stat' = Started(md5_stat, Head(pool.taskqueue))
    /\ pool' = [pool EXCEPT !.taskqueue = Tail(@)]
    /\ UNCHANGED <<input_vars, pc, exc, resolve_vars, calls, transfer_jobs, next_job,
                   total_bytes, counter, t, stat, faults, fs, todo_jobs, ok_jobs>>

\* open(path, "wt"): the file is there, and empty.
Truncated(files, path) == [q \in DOMAIN files \cup {path} |-> IF q = path THEN 0 ELSE files[q]]

\* What md5sum wrote into the open file.
Written(files, path) ==
    [q \in DOMAIN files \cup {path} |-> IF q = path THEN Md5Bytes ELSE files[q]]

\* The file left where it is.
RemoveOmitted(files, path) == files

\* os.remove(path_md5) of line 694.
Remove(files, path) == [q \in DOMAIN files \ {path} |-> files[q]]

\* Lines 681-688: the sidecar is opened for writing.
Md5Open(w) ==
    /\ threads[w].pc = "md5_open"
    /\ fs' = Truncated(fs, todo_jobs[threads[w].job].path_src)
    /\ threads' = [threads EXCEPT ![w].pc = "md5sum"]
    /\ UNCHANGED <<input_vars, pc, exc, resolve_vars, calls, transfer_jobs, next_job,
                   total_bytes, counter, t, pool, stat, faults, md5_vars>>

\* Lines 689-697: md5sum writes the sidecar; when it fails the file is removed and
\* the error raised again: in the main thread it leaves execute(), in a worker it
\* is stored in the AsyncResult that line 527 drops.
Md5Sum(w) ==
    /\ threads[w].pc = "md5sum"
    /\ LET j == threads[w].job
           path_md5 == todo_jobs[j].path_src
       IN \E ok \in CommandOutcomes :
            IF ok
            THEN /\ fs' = Written(fs, path_md5)
                 /\ md5_stat' = [md5_stat EXCEPT ![j].md5sum = @ + 1]
                 /\ threads' = [threads EXCEPT ![w].pc = "md5_get_lock"]
                 /\ UNCHANGED <<pc, exc, faults>>
            ELSE /\ fs' = Remove(fs, path_md5)
                 /\ md5_stat' = [md5_stat EXCEPT ![j].md5sum = @ + 1, ![j].state = "error"]
                 /\ threads' = [threads EXCEPT ![w] = IdleThread]
                 /\ faults' = faults - 1
                 /\ IF w = MainThread THEN Raise("SubprocessError")
                    ELSE UNCHANGED <<pc, exc>>
    /\ UNCHANGED <<input_vars, resolve_vars, calls, transfer_jobs, next_job, total_bytes,
                   counter, t, pool, stat, todo_jobs, ok_jobs>>

\* Line 699.
Md5GetLock(w) ==
    /\ threads[w].pc = "md5_get_lock"
    /\ LockFree(counter)
    /\ counter' = [counter EXCEPT !.lock = @ \cup {w}]
    /\ threads' = [threads EXCEPT ![w].pc = "md5_read_value"]
    /\ UNCHANGED <<input_vars, pc, exc, resolve_vars, calls, transfer_jobs, next_job,
                   total_bytes, t, pool, stat, faults, fs, md5_vars>>

\* Line 700, the read.
Md5ReadValue(w) ==
    /\ threads[w].pc = "md5_read_value"
    /\ threads' = [threads EXCEPT ![w].read = counter.value, ![w].pc = "md5_write_value"]
    /\ UNCHANGED <<input_vars, pc, exc, resolve_vars, calls, transfer_jobs, next_job,
                   total_bytes, counter, t, pool, stat, faults, fs, md5_vars>>

\* Lines 700-704: the write, t.update(counter.value), the release and the return.
Md5WriteValue(w) ==
    /\ threads[w].pc = "md5_write_value"
    /\ LET j == threads[w].job
           value == threads[w].read + Md5Increment(fs, todo_jobs[j])
       IN /\ counter' = [value |-> value, lock |-> counter.lock \ {w}]
          /\ t' = [t EXCEPT !.n = @ + value]
          /\ md5_stat' = [md5_stat EXCEPT ![j].state = "ok", ![j].added = @ + 1]
    /\ threads' = [threads EXCEPT ![w] = IdleThread]
    /\ UNCHANGED <<input_vars, pc, exc, resolve_vars, calls, transfer_jobs, next_job,
                   total_bytes, pool, stat, faults, fs, todo_jobs, ok_jobs>>

ComputeMd5Sum(w) ==
    \/ Md5Open(w)
    \/ Md5Sum(w)
    \/ Md5GetLock(w)
    \/ Md5ReadValue(w)
    \/ Md5WriteValue(w)

(***************************************************************************)
(* The blueprint-driven command, sea_snap/itransfer_mapping_results.py.    *)
(*                                                                         *)
(* A command block is a sequence of lines, a line a sequence of the words  *)
(* that single spaces separate, a word <<kind, a, b, ext>>:                *)
(*   <<0, 0, 0, 0>>             the empty word: an empty line, or what     *)
(*                              follows a trailing separator               *)
(*   <<0, c, 0, 0>>             the c-th plain word (irsync, imkdir)       *)
(*   <<1, library, file, ext>>  the local path <<library, file, ext>>      *)
(*   <<2, root, rel, ext>>      "i:" root "/" rel, and ext times ".md5"    *)
(*   <<3, root, rel, ext>>      the same without "i:"                      *)
(* and kind + 10 is the word with ".md5" before each of its characters and *)
(* after the last.  The root 0 is "__SODAR__", any other a collection.     *)
(* The order of the tuples stands for the order of the strings.  No file   *)
(* name and no rel is part of another, or of a plain word.                 *)
(***************************************************************************)
MaxBlocks == 2

EmptyWord == <<0, 0, 0, 0>>
Placeholder == 0

\* Path(""): the current directory.
CurDir == <<0, 0, 0>>
\* transfer_blueprint.name
BlueprintFile == <<0, 1, 0>>

PathOfWord(word) == <<word[2], word[3], word[4]>>

\* Line 84, Path(word).exists(): a file that is there, or the current directory.
WordExists(files, word) ==
    \/ word = EmptyWord
    \/ word[1] = 1 /\ Exists(files, PathOfWord(word))

\* Line 85, the pattern "i:(__SODAR__/\S+)".
IsDestToken(word) == word[1] = 2 /\ word[2] = Placeholder

\* re.split("\n| ", cmd_block)
RECURSIVE WordsOf(_)
WordsOf(cmd_block) ==
    IF cmd_block = <<>> THEN <<>> ELSE Head(cmd_block) \o WordsOf(Tail(cmd_block))

\* The string "": one line without any word but the empty one.
IsEmptyBlock(cmd_block) == cmd_block = <<<<EmptyWord>>>>

SourcesOf(files, cmd_block) ==
    LET There(word) == WordExists(files, word) IN SelectSeq(WordsOf(cmd_block), There)

DestsOf(cmd_block) == SelectSeq(WordsOf(cmd_block), IsDestToken)

RangeOf(s) == {s[i] : i \in DOMAIN s}

\* The placeholder left as it is.
KeepPlaceholder(word, irods_dest) == word

\* Lines 91-92: str.replace("__SODAR__", self.args.irods_dest) within one word.
ReplacePlaceholder(word, irods_dest) ==
    IF word[1] \in {2, 3} /\ word[2] = Placeholder
    THEN <<word[1], irods_dest, word[3], word[4]>>
    ELSE word

\* Line 92: cmd_block.replace("__SODAR__", self.args.irods_dest)
ReplacedBlock(cmd_block, irods_dest) ==
    [i \in DOMAIN cmd_block |->
        [k \in DOMAIN cmd_block[i] |-> ReplacePlaceholder(cmd_block[i][k], irods_dest)]]

\* Line 110, .replace(source, source + ext) within one word.
ReplaceSource(word, source, ext) ==
    IF ext = 0 THEN word
    ELSE IF source = EmptyWord THEN <<word[1] + 10, word[2], word[3], word[4]>>
    ELSE IF word[1] = 1 /\ word[2] = source[2] /\ word[3] = source[3] /\ word[4] >= source[4]
    THEN <<1, word[2], word[3], word[4] + ext>>
    ELSE word

\* Line 110, .replace(dest, dest + ext) within one word; dest has no "i:".
ReplaceDest(word, dest, ext) ==
    IF /\ word[1] \in {2, 3}
       /\ word[2] = dest[2] /\ word[3] = dest[3] /\ word[4] >= dest[4]
    THEN <<word[1], word[2], word[3], word[4] + ext>>
    ELSE word

\* Lines 102-105: os.path.getsize, 0 on OSError; "" is no path at all.
SizeOrZero(files, path) == IF Exists(files, path) THEN GetSize(files, path) ELSE 0

\* Line 110: cmd_block.replace(source, source + ext).replace(dest, dest + ext)
CommandOf(cmd_block, source, dest, ext) ==
    [i \in DOMAIN cmd_block |->
        [k \in DOMAIN cmd_block[i] |->
            ReplaceDest(ReplaceSource(cmd_block[i][k], source, ext), dest, ext)]]

\* Lines 106-113: the job of source + ext; dest and cmd_block have the collection
\* in place of the placeholder.
BpJob(files, cmd_block, source, dest, ext) ==
    [path_src |-> <<source[2], source[3], source[4] + ext>>,
     path_dest |-> <<dest[2], dest[3], dest[4] + ext>>,
     command |-> CommandOf(cmd_block, source, dest, ext),
     bytes |-> SizeOrZero(files, <<source[2], source[3], source[4] + ext>>)]

\* Line 87 for one of the two lists.
NotExactlyOne(f) == Cardinality(RangeOf(f)) # 1

\* The source is refused as soon as it is not older than the blueprint.
StaleOrSame(mtimes, source) == mtimes[PathOfWord(source)] >= mtimes[BlueprintFile]

\* Line 97: the source was modified after the blueprint.
Stale(mtimes, source) == mtimes[PathOfWord(source)] > mtimes[BlueprintFile]

\* Every source gets its two jobs.
SuffixIsMd5Never(source) == FALSE

\* Line 94: Path(source).suffix == ".md5".
SuffixIsMd5(source) == source[1] = 1 /\ source[4] >= 1

\* Lines 83-113: the error that leaves the loop, or the jobs in the order of
\* the blocks.
RECURSIVE BpAppendJobs(_, _, _, _)
BpAppendJobs(files, mtimes, command_blocks, irods_dest) ==
    IF command_blocks = <<>> THEN [exc |-> None, jobs |-> <<>>]
    ELSE
      LET cmd_block == Head(command_blocks)
          rest == BpAppendJobs(files, mtimes, Tail(command_blocks), irods_dest)
          sources == SourcesOf(files, cmd_block)
          dests == DestsOf(cmd_block)
          source == sources[1]
          dest == ReplacePlaceholder(dests[1], irods_dest)
          replaced == ReplacedBlock(cmd_block, irods_dest)
      IN IF IsEmptyBlock(cmd_block) THEN rest
         ELSE IF NotExactlyOne(sources) \/ NotExactlyOne(dests)
         THEN [exc |-> "ValueError", jobs |-> <<>>]
         ELSE IF SuffixIsMd5(source) THEN rest
         ELSE IF Stale(mtimes, source) THEN [exc |-> "ValueError", jobs |-> <<>>]
         ELSE IF rest.exc # None THEN rest
         ELSE [exc |-> None,
               jobs |-> <<BpJob(files, replaced, source, dest, 0),
                          BpJob(files, replaced, source, dest, 1)>> \o rest.jobs]

\* The characters of a line, word after word.
RECURSIVE LineKey(_)
LineKey(words) == IF words = <<>> THEN <<>> ELSE Head(words) \o LineKey(Tail(words))

\* The characters of a command, line after line; -1 stands for the line break.
RECURSIVE CommandKey(_)
CommandKey(command) ==
    IF command = <<>> THEN <<>>
    ELSE LineKey(Head(command)) \o <<-1>> \o CommandKey(Tail(command))

\* The order attr.s gives this module's TransferJob: by (path_src, path_dest,
\* command, bytes).
BpJobLess(a, b) ==
    IF a.path_src # b.path_src THEN TupleLess(a.path_src, b.path_src)
    ELSE IF a.path_dest # b.path_dest THEN TupleLess(a.path_dest, b.path_dest)
    ELSE IF a.command # b.command THEN TupleLess(CommandKey(a.command), CommandKey(b.command))
    ELSE a.bytes < b.bytes

RECURSIVE BpInsertJob(_, _)
BpInsertJob(s, x) ==
    IF s = <<>> THEN <<x>>
    ELSE IF BpJobLess(x, Head(s)) THEN <<x>> \o s
    ELSE <<Head(s)>> \o BpInsertJob(Tail(s), x)

\* The jobs in the order of the blocks.
BpUnsorted(jobs) == jobs

\* Line 114: sorted(transfer_jobs)
RECURSIVE BpSorted(_)
BpSorted(jobs) ==
    IF jobs = <<>> THEN <<>>
    ELSE BpInsertJob(BpSorted(SubSeq(jobs, 1, Len(jobs) - 1)), jobs[Len(jobs)])

\* Lines 125-127: the blocks of the blueprint, and build_jobs.
BpBuildJobs ==
    /\ pc = "bp_build_jobs"
    /\ LET built == BpAppendJobs(fs, st_mtime, args.transfer_blueprint, args.irods_dest) IN
         IF built.exc # None
         THEN /\ Raise(built.exc)
              /\ UNCHANGED transfer_jobs
         ELSE /\ transfer_jobs' = BpSorted(built.jobs)
              /\ pc' = "bp_fix_md5"
              /\ exc' = exc
    /\ UNCHANGED <<input_vars, resolve_vars, calls, next_job, total_bytes, counter, t,
                   pool, threads, stat, faults, fs, md5_vars>>

(***************************************************************************)
(* execute, lines 132-151, and irsync_transfer, lines 158-174, of the      *)
(* blueprint-driven command.                                               *)
(***************************************************************************)
BpIdleThread == [job |-> NoJob, pc |-> "idle", cmd |-> 0, read |-> 0]

\* Per job: its state, the times it was handed to the pool and started, the
\* commands logged (line 164), the commands run, the additions to the counter.
BpNewStat ==
    [state |-> "new", applied |-> 0, starts |-> 0, logged |-> 0, executed |-> 0, added |-> 0]

\* Lines 132-139 and 144.
BpTransferStart ==
    /\ pc = "bp_transfer"
    /\ total_bytes' = SumBytes(transfer_jobs)
    /\ counter' = [value |-> 0, lock |-> {}]
    /\ t' = [total |-> SumBytes(transfer_jobs), n |-> 0]
    /\ next_job' = 1
    /\ stat' = [j \in 1..Len(transfer_jobs) |-> BpNewStat]
    /\ threads' = [w \in {MainThread} \cup Workers |-> BpIdleThread]
    /\ IF args.num_parallel_transfers = 0
       THEN pc' = "bp_for_job" /\ pool' = NoPool
       ELSE pc' = "bp_apply_async" /\ pool' = [taskqueue |-> <<>>, state |-> "open"]
    /\ UNCHANGED <<input_vars, exc, resolve_vars, calls, transfer_jobs, faults, fs,
                   md5_vars>>

\* A thread enters irsync_transfer(job, counter, t): line 160, before the first
\* command.
BpEnter(ths, w, j) == [ths EXCEPT ![w] = [job |-> j, pc |-> "bp_command", cmd |-> 1, read |-> 0]]

\* Lines 141-142 and 150-151, num_parallel_transfers == 0.
BpForJob ==
    /\ pc = "bp_for_job"
    /\ threads[MainThread].pc = "idle"
    /\ IF next_job <= Len(transfer_jobs)
       THEN /\ threads' = BpEnter(threads, MainThread, next_job)
            /\ stat' = Started(stat, next_job)
            /\ next_job' = next_job + 1
            /\ pc' = pc
       ELSE /\ pc' = "done"
            /\ UNCHANGED <<threads, stat, next_job>>
    /\ UNCHANGED <<input_vars, exc, resolve_vars, calls, transfer_jobs,
                   total_bytes, counter, t, pool, faults, fs, md5_vars>>

\* Lines 145-147.
BpApplyAsync ==
    /\ pc = "bp_apply_async"
    /\ IF next_job <= Len(transfer_jobs)
       THEN /\ pool' = [pool EXCEPT !.taskqueue = Append(@, next_job)]
            /\ stat' = [stat EXCEPT ![next_job].state = "queued", ![next_job].applied = @ + 1]
            /\ next_job' = next_job + 1
            /\ pc' = pc
       ELSE /\ pool' = [pool EXCEPT !.state = "closed"]
            /\ pc' = "bp_join"
            /\ UNCHANGED <<stat, next_job>>
    /\ UNCHANGED <<input_vars, exc, resolve_vars, calls, transfer_jobs,
                   total_bytes, counter, t, threads, faults, fs, md5_vars>>

\* Lines 148-151.
BpJoin ==
    /\ pc = "bp_join"
    /\ PoolDone(pool, threads)
    /\ pc' = "done"
    /\ UNCHANGED <<input_vars, exc, resolve_vars, calls, run_vars>>

\* An idle worker takes the oldest task of the queue.
BpTakeTask(w) ==
    /\ pc \in {"bp_apply_async", "bp_join"}
    /\ FirstIdle(w)
    /\ pool.taskqueue # <<>>
    /\ threads' = BpEnter(threads, w, Head(pool.taskqueue))
    /\ stat' = Started(stat, Head(pool.taskqueue))
    /\ pool' = [pool EXCEPT !.taskqueue = Tail(@)]
    /\ UNCHANGED <<input_vars, pc, exc, resolve_vars, calls, transfer_jobs,
                   next_job, total_bytes, counter, t, faults, fs, md5_vars>>

\* Lines 162-170, one turn of the loop over job.command.split(os.linesep): the
\* command is logged, and the body of the try is "pass", check_output being
\* commented out, so nothing is run and nothing can be raised; after the last
\* command the loop is left.
BpCommand(w) ==
    /\ threads[w].pc = "bp_command"
    /\ IF threads[w].cmd <= Len(transfer_jobs[threads[w].job].command)
       THEN /\ stat' = [stat EXCEPT ![threads[w].job].logged = @ + 1]
            /\ threads' = [threads EXCEPT ![w].cmd = @ + 1]
       ELSE /\ threads' = [threads EXCEPT ![w].pc = "bp_get_lock"]
            /\ stat' = stat
    /\ UNCHANGED <<input_vars, pc, exc, resolve_vars, calls, transfer_jobs,
                   next_job, total_bytes, counter, t, pool, faults, fs, md5_vars>>

\* Line 172: with counter.get_lock().
BpGetLock(w) ==
    /\ threads[w].pc = "bp_get_lock"
    /\ LockFree(counter)
    /\ counter' = [counter EXCEPT !.lock = @ \cup {w}]
    /\ threads' = [threads EXCEPT ![w].pc = "bp_read_value"]
    /\ UNCHANGED <<input_vars, pc, exc, resolve_vars, calls, transfer_jobs,
                   next_job, total_bytes, t, pool, stat, faults, fs, md5_vars>>

\* Line 173, the read of "counter.value += job.bytes".
BpReadValue(w) ==
    /\ threads[w].pc = "bp_read_value"
    /\ threads' = [threads EXCEPT ![w].read = counter.value, ![w].pc = "bp_write_value"]
    /\ UNCHANGED <<input_vars, pc, exc, resolve_vars, calls, transfer_jobs,
                   next_job, total_bytes, counter, t, pool, stat, faults, fs, md5_vars>>

\* Lines 173-174: the write, t.update(counter.value), the release of the lock.
BpWriteValue(w) ==
    /\ threads[w].pc = "bp_write_value"
    /\ LET value == threads[w].read + transfer_jobs[threads[w].job].bytes IN
         /\ counter' = [value |-> value, lock |-> counter.lock \ {w}]
         /\ t' = [t EXCEPT !.n = @ + value]
    /\ stat' = [stat EXCEPT ![threads[w].job].state = "ok", ![threads[w].job].added = @ + 1]
    /\ threads' = [threads EXCEPT ![w] = BpIdleThread]
    /\ UNCHANGED <<input_vars, pc, exc, resolve_vars, calls, transfer_jobs,
                   next_job, total_bytes, pool, faults, fs, md5_vars>>

BpIrsyncTransfer(w) ==
    \/ BpCommand(w)
    \/ BpGetLock(w)
    \/ BpReadValue(w)
    \/ BpWriteValue(w)

(***************************************************************************)
(* sodar/ingest.py: build_jobs, lines 331-345, for one source directory.   *)
(***************************************************************************)
\* Lines 278-329, a directory and no --checksums: the data files as glob
\* yields them, then the sidecars that are there, in the same order.
IngestSourcePaths(files, results) ==
    LET There(q) == Exists(files, q) IN
    results \o SelectSeq([i \in DOMAIN results |-> Md5Of(results[i])], There)

\* Lines 336-342.
IngestJob(files, path, irods_path, coll) ==
    [path_src |-> path,
     path_dest |-> [lz |-> irods_path, coll |-> coll, rel |-> path],
     bytes |-> GetSize(files, path),
     command |-> None]

\* Lines 331-345.
IngestBuildJobs ==
    /\ pc = "ingest_build_jobs"
    /\ \E results \in Orders({q \in DOMAIN fs : ~EndsWithMd5(q)}) :
         LET listed == IngestSourcePaths(fs, results) IN
         transfer_jobs' =
             Sorted([i \in DOMAIN listed |->
                        IngestJob(fs, listed[i], lz_irods_path, args.collection)])
    /\ pc' = "ingest_transfer"
    /\ UNCHANGED <<input_vars, exc, resolve_vars, calls, next_job, total_bytes, counter,
                   t, pool, threads, stat, faults, fs, md5_vars>>

(***************************************************************************)
(* sodar/ingest.py: execute, lines 137-276, with build_file_list,          *)
(* process_md5_sums and build_jobs.                                        *)
(***************************************************************************)
MaxCollections == 2

\* The source directory and its one sub-directory.
TopDir == CHOOSE d \in Libraries : TRUE
SubDir == TopDir + 1

\* The source directory itself, as an element of args.sources.
SourceDir == <<TopDir, 0, 0>>

\* src.is_dir()
IsDir(src) == src[2] = 0

\* The suffixes of a name are the decimal digits of the third component:
\* 1 for ".md5", 2 for ".MD5".  Line 308: p.parent / (p.name + ".md5").
LowerPath(p) == <<p[1], p[2], 10 * p[3] + 1>>

\* Line 307: p.parent / (p.name + ".MD5").
UpperPath(p) == <<p[1], p[2], 10 * p[3] + 2>>

\* Line 319: upper_path.with_suffix(".md5").
WithSuffixMd5(p) == <<p[1], p[2], 10 * (p[3] \div 10) + 1>>

\* Line 294: p.suffix.lower() == ".md5".
SuffixLowerIsMd5(p) == p[3] % 10 \in {1, 2}

\* Path(src.name), line 297: the name alone, no directory.
NameOnly(p) == <<TopDir, p[2], p[3]>>

\* The files of at most one data file in the source directory, with its
\* sidecars of either case, and a data file in the sub-directory.
IngestPaths == ({TopDir} \X {1} \X {0, 1, 2}) \cup {<<SubDir, 1, 0>>}

\* A data file holds 2 bytes, a ".md5" sidecar Md5Bytes, a ".MD5" sidecar 3.
IngestBytesOf(p) == IF p[3] = 0 THEN 2 ELSE IF p[3] = 1 THEN Md5Bytes ELSE 3

IngestFileSystems == {[q \in P |-> IngestBytesOf(q)] : P \in SUBSET IngestPaths}

\* sys.exit(code)
SysExit(code) == pc' = "exited" /\ exc' = IF code = 0 THEN "SystemExit(0)" ELSE "SystemExit(1)"

\* Lines 147-168: the destination is the path, or names the landing zone.
IngestStart ==
    /\ pc = "ingest_start"
    /\ IF is_uuid(args.destination)
       THEN /\ calls' = Append(calls, "retrieve")
            /\ \E outcome \in RetrieveOutcomes :
                 IF outcome = "ok"
                 THEN LET lz_info == CHOOSE z \in RangeOf(server_zones) :
                                         z.sodar_uuid = args.destination IN
                      IF lz_info.status \in {"ACTIVE", "FAILED"}
                      THEN /\ lz_irods_path' = lz_info.irods_path
                           /\ pc' = "ingest_file_list"
                           /\ exc' = exc
                      ELSE SysExit(1) /\ UNCHANGED lz_irods_path
                 ELSE SysExit(1) /\ UNCHANGED lz_irods_path
       ELSE /\ lz_irods_path' = args.destination
            /\ pc' = "ingest_file_list"
            /\ UNCHANGED <<exc, calls>>
    /\ UNCHANGED <<input_vars, lz_uuid, not_project_uuid, asked, run_vars>>

\* Lines 291-295: what the glob of a directory gives, files that are no sidecars.
Globbed(files, recursive) ==
    {p \in DOMAIN files : (recursive \/ p[1] = TopDir) /\ ~SuffixLowerIsMd5(p)}

\* Lines 281-298: the entries of the sources, the glob in any order.
RECURSIVE FileLists(_, _, _)
FileLists(files, sources, recursive) ==
    IF sources = <<>> THEN {<<>>}
    ELSE LET src == Head(sources)
             found == IF IsDir(src)
                      THEN {[i \in DOMAIN o |-> [spath |-> o[i], ipath |-> o[i]]] :
                               o \in Orders(Globbed(files, recursive))}
                      ELSE {<<[spath |-> src, ipath |-> NameOnly(src)]>>}
         IN {a \o b : a \in found, b \in FileLists(files, Tail(sources), recursive)}

\* build_file_list, lines 278-298, and the copy of line 303.
IngestBuildFileList ==
    /\ pc = "ingest_file_list"
    /\ \E paths \in FileLists(fs, args.sources, args.recursive) :
         /\ source_paths' = paths
         /\ output_paths' = paths
    /\ next_job' = 1
    /\ pc' = "ingest_md5"
    /\ UNCHANGED <<args, server_zones, fix_md5_files, library_names, st_mtime, collections,
                   target_coll, user_input, exc, resolve_vars, calls, transfer_jobs,
                   total_bytes, counter, t, pool, threads, stat, faults, fs, md5_vars>>

\* Lines 309-320: the ".MD5" sidecar removed or renamed.
Normalised(files, p) ==
    LET upper_path == UpperPath(p)
        lower_path == LowerPath(p)
    IN IF Exists(files, upper_path) /\ Exists(files, lower_path)
       THEN [q \in DOMAIN files \ {upper_path} |-> files[q]]
       ELSE IF Exists(files, upper_path)
       THEN [q \in (DOMAIN files \ {upper_path}) \cup {WithSuffixMd5(upper_path)} |->
                IF q = WithSuffixMd5(upper_path) THEN files[upper_path] ELSE files[q]]
       ELSE files

\* A file written anew with the given size.
WithFile(files, p, size) == [q \in DOMAIN files \cup {p} |-> IF q = p THEN size ELSE files[q]]

\* process_md5_sums, lines 304-327: one turn of "for file in paths", and the
\* return of line 329.
IngestProcessMd5 ==
    /\ pc = "ingest_md5"
    /\ IF next_job <= Len(source_paths)
       THEN /\ UNCHANGED source_paths
            /\ LET file == source_paths[next_job]
                   p == file.spath
                   lower_path == LowerPath(p)
                   sidecar == [spath |-> lower_path, ipath |-> LowerPath(file.ipath)]
                   found == Exists(fs, UpperPath(p)) \/ Exists(fs, lower_path)
                   files == Normalised(fs, p)
                   listed == IF found THEN Append(output_paths, sidecar) ELSE output_paths
               IN IF ~Exists(files, lower_path) /\ args.checksums
                  THEN IF Exists(files, p)
                       THEN /\ fs' = WithFile(files, lower_path, Md5Bytes)
                            /\ output_paths' = Append(listed, sidecar)
                            /\ next_job' = next_job + 1
                            /\ UNCHANGED <<pc, exc>>
                       ELSE /\ fs' = WithFile(files, lower_path, 0)
                            /\ output_paths' = listed
                            /\ Raise("FileNotFoundError")
                            /\ UNCHANGED next_job
                  ELSE /\ fs' = files
                       /\ output_paths' = listed
                       /\ next_job' = next_job + 1
                       /\ UNCHANGED <<pc, exc>>
       ELSE /\ source_paths' = output_paths
            /\ pc' = "ingest_query"
            /\ UNCHANGED <<exc, fs, output_paths, next_job>>
    /\ UNCHANGED <<args, server_zones, fix_md5_files, library_names, st_mtime, collections,
                   target_coll, user_input, resolve_vars, calls, transfer_jobs,
                   total_bytes, counter, t, pool, threads, stat, faults, md5_vars>>

CollectionNames == <<"coll-1", "coll-2", "coll-3">>

\* The sub-collections the landing zone may hold.
CollectionLists == {[i \in 1..k |-> CollectionNames[i]] : k \in 0..MaxCollections}

\* Lines 176-188: the names of the sub-collections of the landing zone.
IngestQuery ==
    /\ pc = "ingest_query"
    /\ calls' = Append(calls, "collections.get")
    /\ \E outcome \in {"ok", "error"} :
         IF outcome = "ok"
         THEN /\ collections' \in CollectionLists
              /\ pc' = "ingest_select"
              /\ exc' = exc
         ELSE SysExit(1) /\ UNCHANGED collections
    /\ UNCHANGED <<args, server_zones, fix_md5_files, library_names, st_mtime, source_paths,
                   output_paths, target_coll, user_input, resolve_vars, run_vars>>

\* What the user may type at "Select by number: ".
UserInputs == {"", "x", "0", "1", "2", "3"}

\* str.isdigit()
isdigit(s) == s \in {"0", "1", "2", "3"}

\* int(user_input)
int(s) == CASE s = "0" -> 0 [] s = "1" -> 1 [] s = "2" -> 2 [] s = "3" -> 3

\* Every listed number taken.
InputValidUpToLast(n, listed) == 0 < n /\ n <= Len(listed)

\* Line 202: "if 0 < user_input < len(collections)".
InputValid(n, listed) == 0 < n /\ n < Len(listed)

\* Lines 190-211: self.target_coll, typed by the user or from args.collection.
IngestSelect ==
    /\ pc = "ingest_select"
    /\ IF args.collection = None
       THEN \E typed \in UserInputs :
              /\ user_input' = typed
              /\ IF isdigit(typed) /\ InputValid(int(typed), collections)
                 THEN /\ target_coll' = collections[(int(typed) - 1) + 1]
                      /\ pc' = "ingest_dirs"
                 ELSE UNCHANGED <<target_coll, pc>>
              /\ exc' = exc
       ELSE /\ IF args.collection \in RangeOf(collections)
               THEN /\ target_coll' = args.collection
                    /\ pc' = "ingest_dirs"
                    /\ exc' = exc
               ELSE SysExit(1) /\ UNCHANGED target_coll
            /\ UNCHANGED user_input
    /\ UNCHANGED <<args, server_zones, fix_md5_files, library_names, st_mtime, source_paths,
                   output_paths, collections, resolve_vars, calls, run_vars>>

\* Lines 214-216: sorted({p["ipath"].parent ...}) without Path(".").
Dirs(paths) ==
    IF \E i \in DOMAIN paths : paths[i].ipath[1] = SubDir THEN <<SubDir>> ELSE <<>>

\* Whatever was answered is taken as a yes.
ConfirmedAnyway(reply) == TRUE

\* Lines 223 and 252: input("Is this OK? [y/N] ").lower().startswith("y").
Confirmed(reply) == Affirmative(reply)

\* Lines 222-225 and 251-254: the question, unless args.yes, and where it leads.
IsThisOk(question, next_pc) ==
    IF args.yes
    THEN pc' = next_pc /\ UNCHANGED <<exc, asked>>
    ELSE \E reply \in Replies :
           /\ asked' = Append(asked, <<question, reply>>)
           /\ IF Confirmed(reply) THEN pc' = next_pc /\ exc' = exc ELSE SysExit(0)

\* Lines 213-225: the sub-collections planned and the go of the user.
IngestConfirmDirs ==
    /\ pc = "ingest_dirs"
    /\ IF args.recursive
       THEN IsThisOk("dirs", "ingest_create")
       ELSE pc' = "ingest_plan" /\ UNCHANGED <<exc, asked>>
    /\ next_job' = 1
    /\ UNCHANGED <<input_vars, lz_uuid, lz_irods_path, not_project_uuid, calls,
                   transfer_jobs, total_bytes, counter, t, pool, threads, stat, faults,
                   fs, md5_vars>>

\* Lines 227-237: one turn of "for d in dirs".
IngestCreate ==
    /\ pc = "ingest_create"
    /\ IF next_job <= Len(Dirs(source_paths))
       THEN /\ calls' = Append(calls, "collections.create")
            /\ \E outcome \in {"ok", "error"} :
                 IF outcome = "ok"
                 THEN next_job' = next_job + 1 /\ UNCHANGED <<pc, exc>>
                 ELSE SysExit(1) /\ UNCHANGED next_job
       ELSE /\ pc' = "ingest_plan"
            /\ UNCHANGED <<exc, calls, next_job>>
    /\ UNCHANGED <<input_vars, resolve_vars, transfer_jobs, total_bytes, counter, t, pool,
                   threads, stat, faults, fs, md5_vars>>

\* Lines 336-342 for an entry of source_paths.
IngestJobOf(files, p, irods_path, coll) ==
    [IngestJob(files, p.spath, irods_path, coll) EXCEPT !.path_dest.rel = p.ipath]

\* Lines 239-254: build_jobs (lines 331-345), the plan shown, the go of the user.
IngestPlan ==
    /\ pc = "ingest_plan"
    /\ IF \E i \in DOMAIN source_paths : ~Exists(fs, source_paths[i].spath)
       THEN /\ Raise("FileNotFoundError")
            /\ UNCHANGED <<asked, transfer_jobs, total_bytes, t>>
       ELSE /\ transfer_jobs' =
                 Sorted([i \in DOMAIN source_paths |->
                            IngestJobOf(fs, source_paths[i], lz_irods_path, target_coll)])
            /\ total_bytes' = SumBytes(transfer_jobs')
            /\ t' = [total |-> total_bytes', n |-> 0]
            /\ IsThisOk("transfer", "ingest_put")
    /\ next_job' = 1
    /\ UNCHANGED <<input_vars, lz_uuid, lz_irods_path, not_project_uuid, calls, counter,
                   pool, threads, stat, faults, fs, md5_vars>>

\* Lines 259-271: one turn of "for job in jobs", and line 271.
IngestPut ==
    /\ pc = "ingest_put"
    /\ IF next_job <= Len(transfer_jobs)
       THEN /\ calls' = Append(calls, "put")
            /\ \E outcome \in {"ok", "error"} :
                 IF outcome = "ok"
                 THEN /\ t' = [t EXCEPT !.n = @ + transfer_jobs[next_job].bytes]
                      /\ next_job' = next_job + 1
                      /\ UNCHANGED <<pc, exc>>
                 ELSE /\ Raise("Exception")
                      /\ UNCHANGED <<t, next_job>>
       ELSE /\ pc' = "done"
            /\ UNCHANGED <<exc, calls, t, next_job>>
    /\ UNCHANGED <<input_vars, resolve_vars, transfer_jobs, total_bytes, counter, pool,
                   threads, stat, faults, fs, md5_vars>>

\* The sources: the directory, or one or two files named one by one.
SourcesOver(files) ==
    LET named == {p \in DOMAIN files : p[1] = TopDir}
    IN {<<SourceDir>>} \cup {<<p>> : p \in named}
         \cup {s \in named \X named : s[1] # s[2]}

InitIngest ==
    /\ fs \in IngestFileSystems
    /\ server_zones \in ZoneListsOver(1, RunZoneAttrs)
    /\ args \in [destination : {IrodsPathOf(CreatedUuid), ZoneUuids[1]},
                 collection : {None, CollectionNames[1]},
                 sources : SourcesOver(fs),
                 yes : BOOLEAN, recursive : BOOLEAN, checksums : BOOLEAN]
    /\ fix_md5_files = FALSE
    /\ library_names = <<>>
    /\ st_mtime = <<>>
    /\ NoIngest
    /\ pc = "ingest_start"
    /\ exc = None
    /\ lz_uuid = None
    /\ lz_irods_path = None
    /\ not_project_uuid = FALSE
    /\ asked = <<>>
    /\ calls = <<>>
    /\ transfer_jobs = <<>>
    /\ next_job = 1
    /\ total_bytes = 0
    /\ counter = [value |-> 0, lock |-> {}]
    /\ t = [total |-> 0, n |-> 0]
    /\ pool = NoPool
    /\ threads = [w \in {MainThread} |-> IdleThread]
    /\ stat = <<>>
    /\ faults = 0
    /\ todo_jobs = <<>>
    /\ ok_jobs = <<>>
    /\ md5_stat = <<>>

NextIngest ==
    \/ IngestStart
    \/ IngestBuildFileList
    \/ IngestProcessMd5
    \/ IngestQuery
    \/ IngestSelect
    \/ IngestConfirmDirs
    \/ IngestCreate
    \/ IngestPlan
    \/ IngestPut

SpecIngest == InitIngest /\ [][NextIngest]_vars

(***************************************************************************)
(* Specification of the resolution of the landing zone alone.              *)
(***************************************************************************)
ArgsSet ==
    [yes : BOOLEAN, destination : Destinations, assay : Assays \cup {None},
     validate_and_move : {FALSE}, num_parallel_transfers : {0}]

NotStarted ==
    /\ transfer_jobs = <<>>
    /\ next_job = 1
    /\ total_bytes = 0
    /\ counter = [value |-> 0, lock |-> {}]
    /\ t = [total |-> 0, n |-> 0]
    /\ pool = NoPool
    /\ threads = [w \in {MainThread} \cup Workers |-> IdleThread]
    /\ stat = <<>>
    /\ todo_jobs = <<>>
    /\ ok_jobs = <<>>
    /\ md5_stat = <<>>

InitResolve ==
    /\ args \in ArgsSet
    /\ server_zones \in ZoneLists(MaxZones)
    /\ pc = "get_sodar_info"
    /\ exc = None
    /\ st_mtime = <<>>
    /\ NoIngest
    /\ lz_uuid = None
    /\ lz_irods_path = None
    /\ not_project_uuid = FALSE
    /\ asked = <<>>
    /\ calls = <<>>
    /\ NotStarted
    /\ faults = 0
    /\ fix_md5_files = FALSE
    /\ library_names = <<>>
    /\ fs = <<>>

NextResolve ==
    \/ GsiStart
    \/ GsiYesLatest
    \/ GsiYesCreate
    \/ GsiLatest
    \/ GsiByUuid
    \/ GsiAskUse
    \/ GsiAskCreate
    \/ GsiCreate
    \/ GsiCheck

SpecResolve == InitResolve /\ [][NextResolve]_vars

(***************************************************************************)
(* Specification of a whole run of execute(), from build_jobs on: the      *)
(* resolution, the jobs, the sidecars, the transfer, the move.             *)
(***************************************************************************)
RunArgsSet ==
    [yes : BOOLEAN, destination : {ProjectUuid, ZoneUuids[1], "not-a-uuid"},
     assay : {None}, validate_and_move : BOOLEAN,
     num_parallel_transfers : {0, 1}]

Init ==
    /\ args \in RunArgsSet
    /\ server_zones \in ZoneListsOver(1, RunZoneAttrs)
    /\ fix_md5_files \in BOOLEAN
    /\ library_names = <<1>>
    /\ fs \in FileSystemsOf(MaxRunFiles)
    /\ faults = MaxRunFaults
    /\ pc = "get_sodar_info"
    /\ exc = None
    /\ st_mtime = <<>>
    /\ NoIngest
    /\ lz_uuid = None
    /\ lz_irods_path = None
    /\ not_project_uuid = FALSE
    /\ asked = <<>>
    /\ calls = <<>>
    /\ NotStarted

NextTransfer ==
    \/ TransferStart
    \/ ForJob
    \/ ApplyAsync
    \/ Join
    \/ Move
    \/ \E w \in Workers : TakeTask(w)
    \/ \E w \in {MainThread} \cup Workers : IrsyncTransfer(w)

NextFixMd5 ==
    \/ FixMd5Start
    \/ Md5ForJob
    \/ Md5ApplyAsync
    \/ Md5Join
    \/ \E w \in Workers : Md5TakeTask(w)
    \/ \E w \in {MainThread} \cup Workers : ComputeMd5Sum(w)

Next ==
    \/ NextResolve
    \/ BuildJobs
    \/ NextFixMd5
    \/ NextTransfer

Spec == Init /\ [][Next]_vars

(***************************************************************************)
(* Specifications of the transfer alone: execute() at line 578, after      *)
(* --yes made the service create a landing zone and build_jobs returned    *)
(* the jobs of a directory whose data files all have their sidecar.        *)
(***************************************************************************)
Complete(files) == \A q \in DOMAIN files : Exists(files, Md5Of(q)) /\ Exists(files, DataOf(q))

AtTransfer(parallel, files, max_faults) ==
    /\ args \in [yes : {TRUE}, destination : {ProjectUuid}, assay : {None},
                 validate_and_move : BOOLEAN, num_parallel_transfers : parallel]
    /\ server_zones = <<>>
    /\ fix_md5_files = FALSE
    /\ library_names = <<1>>
    /\ fs \in {f \in files : Complete(f)}
    /\ faults = max_faults
    /\ pc = "transfer"
    /\ exc = None
    /\ st_mtime = <<>>
    /\ NoIngest
    /\ lz_uuid = CreatedUuid
    /\ lz_irods_path = IrodsPathOf(CreatedUuid)
    /\ not_project_uuid = FALSE
    /\ asked = <<>>
    /\ calls = <<"list", "create">>
    /\ transfer_jobs \in {Sorted(AppendJobs(fs, results, IrodsPathOf(CreatedUuid))) :
                             results \in GlobOrders(fs, library_names)}
    /\ next_job = 1
    /\ total_bytes = 0
    /\ counter = [value |-> 0, lock |-> {}]
    /\ t = [total |-> 0, n |-> 0]
    /\ pool = NoPool
    /\ threads = [w \in {MainThread} \cup Workers |-> IdleThread]
    /\ stat = <<>>
    /\ todo_jobs = <<>>
    /\ ok_jobs = <<>>
    /\ md5_stat = <<>>

\* One job at a time, by the main thread or by a pool of one worker, and up to
\* MaxFaults failing commands.
InitTransfer == AtTransfer({0, 1}, FileSystemsOf(MaxRunFiles), MaxFaults)

SpecTransfer == InitTransfer /\ [][NextTransfer]_vars

\* A pool of up to MaxWorkers workers in which every command succeeds.
InitPool == AtTransfer(1..MaxWorkers, FileSystemsOf(MaxFiles), 0)

NextPool ==
    \/ TransferStart
    \/ ApplyAsync
    \/ Join
    \/ Move
    \/ \E w \in Workers : TakeTask(w)
    \/ \E w \in Workers : IrsyncTransfer(w)

SpecPool == InitPool /\ [][NextPool]_vars

(***************************************************************************)
(* Specification of the jobs and the two phases: execute() at line 225,    *)
(* after --yes made the service create a landing zone, over every          *)
(* directory of at most MaxFiles data files, with and without workers,     *)
(* every command succeeding.                                               *)
(***************************************************************************)
InitBuild ==
    /\ args \in [yes : {TRUE}, destination : {ProjectUuid}, assay : {None},
                 validate_and_move : {FALSE}, num_parallel_transfers : 0..MaxWorkers]
    /\ server_zones = <<>>
    /\ fix_md5_files \in BOOLEAN
    /\ library_names = <<1>>
    /\ fs \in FileSystemsOf(MaxFiles)
    /\ faults = 0
    /\ pc = "build_jobs"
    /\ exc = None
    /\ st_mtime = <<>>
    /\ NoIngest
    /\ lz_uuid = CreatedUuid
    /\ lz_irods_path = IrodsPathOf(CreatedUuid)
    /\ not_project_uuid = FALSE
    /\ asked = <<>>
    /\ calls = <<"list", "create">>
    /\ NotStarted

NextBuild ==
    \/ BuildJobs
    \/ NextFixMd5
    \/ NextTransfer

SpecBuild == InitBuild /\ [][NextBuild]_vars

(***************************************************************************)
(* Specification of the two phases with failing commands: execute() at     *)
(* line 225 as above, fix_md5_files set, over the directories of at most   *)
(* MaxRunFiles data files without any sidecar, without workers or with     *)
(* one, and up to MaxFaults failing commands.                              *)
(***************************************************************************)
NoSidecar(files) == files # <<>> /\ \A q \in DOMAIN files : ~EndsWithMd5(q)

InitPhases ==
    /\ args \in [yes : {TRUE}, destination : {ProjectUuid}, assay : {None},
                 validate_and_move : {FALSE}, num_parallel_transfers : {0, 1}]
    /\ server_zones = <<>>
    /\ fix_md5_files = TRUE
    /\ library_names = <<1>>
    /\ fs \in {f \in FileSystemsOf(MaxRunFiles) : NoSidecar(f)}
    /\ faults = MaxFaults
    /\ pc = "build_jobs"
    /\ exc = None
    /\ st_mtime = <<>>
    /\ NoIngest
    /\ lz_uuid = CreatedUuid
    /\ lz_irods_path = IrodsPathOf(CreatedUuid)
    /\ not_project_uuid = FALSE
    /\ asked = <<>>
    /\ calls = <<"list", "create">>
    /\ NotStarted

SpecPhases == InitPhases /\ [][NextBuild]_vars

(***************************************************************************)
(* Specification of the builders of jobs: build_jobs of the pattern-driven *)
(* command with _execute_md5_files_fix, of the blueprint-driven command    *)
(* and of sodar ingest, over the blueprints of at most MaxBlocks blocks.   *)
(***************************************************************************)
WordIrsync == <<0, 1, 0, 0>>
WordImkdir == <<0, 2, 0, 0>>
FileWord(f, ext) == <<1, 1, f, ext>>
DestToken(k, ext) == <<2, Placeholder, k, ext>>
BareDest(k) == <<3, Placeholder, k, 0>>

\* "irsync <file> i:__SODAR__/<file>"
PutLine(f) == <<WordIrsync, FileWord(f, 0), DestToken(f, 0)>>
\* "irsync <file>.md5 i:__SODAR__/<file>.md5"
PutMd5Line(f) == <<WordIrsync, FileWord(f, 1), DestToken(f, 1)>>
\* "imkdir i:__SODAR__/<k>"
MkdirLine(k) == <<WordImkdir, DestToken(k, 0)>>
\* "imkdir __SODAR__/<k>"
BareLine(k) == <<WordImkdir, BareDest(k)>>
EmptyLine == <<EmptyWord>>

Blocks ==
    {<<EmptyLine>>, <<MkdirLine(1)>>, <<MkdirLine(1), EmptyLine>>, <<PutLine(1), EmptyLine>>,
     <<PutLine(1), PutLine(2)>>, <<MkdirLine(2), PutLine(1)>>, <<<<WordIrsync, FileWord(1, 0)>>>>}
    \cup {<<PutLine(f)>> : f \in 1..2}
    \cup {<<MkdirLine(f), PutLine(f)>> : f \in 1..2}
    \cup {<<BareLine(f), PutLine(f), PutLine(f)>> : f \in 1..2}
    \cup {<<PutMd5Line(1)>>}

RECURSIVE SeqsUpTo(_, _)
SeqsUpTo(S, n) ==
    IF n = 0 THEN {<<>>}
    ELSE {<<>>} \cup {<<x>> \o r : x \in S, r \in SeqsUpTo(S, n - 1)}

\* The modification times: the blueprint's is 2; the first data file is older,
\* as old or newer and its sidecar older or newer; the other data files are as
\* old and their sidecars older; the current directory is as old or newer.
MTimesOf(files) ==
    {m \in [DOMAIN files \cup {CurDir, BlueprintFile} -> 1..3] :
        /\ m[BlueprintFile] = 2
        /\ m[CurDir] >= 2
        /\ \A q \in DOMAIN files :
              /\ q[2] > 1 => m[q] = IF EndsWithMd5(q) THEN 1 ELSE 2
              /\ EndsWithMd5(q) => m[q] # 2}

InitJobsPattern ==
    /\ args \in [yes : {TRUE}, destination : {ProjectUuid}, assay : {None},
                 validate_and_move : {FALSE}, num_parallel_transfers : {0, 1}]
    /\ fix_md5_files \in BOOLEAN
    /\ \/ library_names = <<1>> /\ fs \in FileSystemsOf(MaxFiles)
       \/ library_names = <<1, 1>> /\ fs \in FileSystemsOf(MaxRunFiles)
    /\ st_mtime = <<>>
    /\ NoIngest
    /\ pc = "build_jobs"
    /\ lz_uuid = CreatedUuid
    /\ lz_irods_path = IrodsPathOf(CreatedUuid)
    /\ calls = <<"list", "create">>

InitJobsBlueprint ==
    /\ args \in [transfer_blueprint : SeqsUpTo(Blocks, MaxBlocks), irods_dest : {1},
                 num_parallel_transfers : {0}]
    /\ fix_md5_files = TRUE
    /\ library_names = <<>>
    /\ fs \in FileSystemsOf(2)
    /\ st_mtime \in MTimesOf(fs)
    /\ NoIngest
    /\ pc = "bp_build_jobs"
    /\ lz_uuid = None
    /\ lz_irods_path = None
    /\ calls = <<>>

InitJobsIngest ==
    /\ args \in [destination : {IrodsPathOf(CreatedUuid)}, collection : {1},
                 recursive : {FALSE}, checksums : {FALSE}]
    /\ fix_md5_files = FALSE
    /\ library_names = <<>>
    /\ fs \in FileSystemsOf(MaxFiles)
    /\ st_mtime = <<>>
    /\ NoIngest
    /\ pc = "ingest_build_jobs"
    /\ lz_uuid = None
    /\ lz_irods_path = IrodsPathOf(CreatedUuid)
    /\ calls = <<>>

InitJobs ==
    /\ InitJobsPattern \/ InitJobsBlueprint \/ InitJobsIngest
    /\ server_zones = <<>>
    /\ faults = 0
    /\ exc = None
    /\ not_project_uuid = FALSE
    /\ asked = <<>>
    /\ transfer_jobs = <<>>
    /\ next_job = 1
    /\ total_bytes = 0
    /\ counter = [value |-> 0, lock |-> {}]
    /\ t = [total |-> 0, n |-> 0]
    /\ pool = NoPool
    /\ threads = [w \in {MainThread, 1} |-> IdleThread]
    /\ stat = <<>>
    /\ todo_jobs = <<>>
    /\ ok_jobs = <<>>
    /\ md5_stat = <<>>

\* sodar ingest has no --num-parallel-transfers and no checksum phase.
NextJobs ==
    \/ BuildJobs
    \/ "num_parallel_transfers" \in DOMAIN args /\ NextFixMd5
    \/ BpBuildJobs
    \/ IngestBuildJobs

SpecJobs == InitJobs /\ [][NextJobs]_vars

(***************************************************************************)
(* Specification of the transfer of the blueprint-driven command:          *)
(* execute() at line 132, the jobs built from a blueprint of at most       *)
(* MaxBlocks blocks of one and of two commands, every file and sidecar on  *)
(* disk and older than the blueprint, without workers or with two.         *)
(***************************************************************************)
RunBlocks == {<<PutLine(1)>>, <<BareLine(2), PutLine(2)>>}

InitBlueprint ==
    /\ args \in [transfer_blueprint : SeqsUpTo(RunBlocks, MaxBlocks), irods_dest : {1},
                 num_parallel_transfers : {0, 2}]
    /\ server_zones = <<>>
    /\ fix_md5_files = TRUE
    /\ library_names = <<>>
    /\ fs = [q \in PathsOf(2) |-> BytesOf(q)]
    /\ st_mtime = [q \in PathsOf(2) \cup {CurDir, BlueprintFile} |->
                      IF q = BlueprintFile THEN 2 ELSE 1]
    /\ NoIngest
    /\ faults = 0
    /\ pc = "bp_transfer"
    /\ exc = None
    /\ lz_uuid = None
    /\ lz_irods_path = None
    /\ not_project_uuid = FALSE
    /\ asked = <<>>
    /\ calls = <<>>
    /\ transfer_jobs =
          BpSorted(BpAppendJobs(fs, st_mtime, args.transfer_blueprint, args.irods_dest).jobs)
    /\ next_job = 1
    /\ total_bytes = 0
    /\ counter = [value |-> 0, lock |-> {}]
    /\ t = [total |-> 0, n |-> 0]
    /\ pool = NoPool
    /\ threads = [w \in {MainThread} \cup Workers |-> BpIdleThread]
    /\ stat = <<>>
    /\ todo_jobs = <<>>
    /\ ok_jobs = <<>>
    /\ md5_stat = <<>>

NextBlueprint ==
    \/ BpTransferStart
    \/ BpForJob
    \/ BpApplyAsync
    \/ BpJoin
    \/ \E w \in Workers : BpTakeTask(w)
    \/ \E w \in {MainThread} \cup Workers : BpIrsyncTransfer(w)

SpecBlueprint == InitBlueprint /\ [][NextBlueprint]_vars

(***************************************************************************)
(* Properties of the resolution of the landing zone.                       *)
(***************************************************************************)
Count(seq, x) == Cardinality({i \in DOMAIN seq : seq[i] = x})

\* The zones of the project that may be a transfer target for args.assay.
EligibleZones ==
    {server_zones[i] : i \in {j \in DOMAIN server_zones :
        /\ server_zones[j].status \in {"ACTIVE", "FAILED"}
        /\ (args.assay # None => server_zones[j].assay = args.assay)}}

MostRecentlyModified ==
    {z \in EligibleZones : \A y \in EligibleZones : y.date_modified <= z.date_modified}

Accepts(reply) == reply \in {"y", "Yes"}

\* C2: with args.yes and at least one eligible zone, get_sodar_info resolves to
\* the eligible zone with the greatest date_modified and makes no creation call.
C2_ResolvesToMostRecentlyModified ==
    (args.yes /\ pc = "build_jobs" /\ EligibleZones # {}) =>
        /\ \E z \in MostRecentlyModified :
              lz_uuid = z.sodar_uuid /\ lz_irods_path = z.irods_path
        /\ Count(calls, "create") = 0

\* C8: with args.yes and a project without eligible zone, the lookup is followed
\* by exactly one creation call, the created zone is what is returned, nobody is
\* asked anything, and only a transport error of the service ends it otherwise.
C8_CreatesExactlyOnce ==
    (args.yes /\ args.destination = ProjectUuid /\ EligibleZones = {}) =>
        /\ asked = <<>>
        /\ Count(calls, "create") <= 1
        /\ pc \in {"gsi_check", "build_jobs"} =>
              /\ calls = <<"list", "create">>
              /\ lz_uuid = CreatedUuid
              /\ lz_irods_path = IrodsPathOf(CreatedUuid)
        /\ pc = "raised" => exc = "HTTPError"

C8_Witness ==
    /\ args.yes /\ args.destination = ProjectUuid /\ EligibleZones = {}
    /\ server_zones # <<>>
    /\ pc = "build_jobs" /\ lz_uuid = CreatedUuid /\ calls = <<"list", "create">>

FoundZone == GetLatestLandingZone(server_zones, args.assay)

ReturnsFound ==
    /\ Len(asked) = 1 /\ asked[1][1] = "use" /\ Accepts(asked[1][2])
    /\ calls = <<"list">>
    /\ lz_uuid = FoundZone.lz_uuid /\ lz_irods_path = FoundZone.lz_irods_path

RefusedThen(accepted) ==
    /\ Len(asked) = 2
    /\ asked[1][1] = "use" /\ ~Accepts(asked[1][2])
    /\ asked[2][1] = "create" /\ (Accepts(asked[2][2]) <=> accepted)

ReturnsCreated ==
    /\ RefusedThen(TRUE)
    /\ calls = <<"list", "create">>
    /\ lz_uuid = CreatedUuid /\ lz_irods_path = IrodsPathOf(CreatedUuid)

\* C10: without args.yes, once the lookup found an eligible zone: one question
\* whether to use it; accepted, the found zone is returned with no creation call
\* and no second question; refused, one question whether to create, and accepted,
\* exactly one creation call whose zone is returned instead of the found one.
C10_AskUseThenCreate ==
    (~args.yes /\ ~not_project_uuid /\ calls # <<>> /\ EligibleZones # {}) =>
        /\ pc = "gsi_ask_use" => asked = <<>> /\ calls = <<"list">>
        /\ pc = "gsi_ask_create" =>
              Len(asked) = 1 /\ ~Accepts(asked[1][2]) /\ calls = <<"list">>
        /\ pc = "gsi_create" => RefusedThen(TRUE) /\ calls = <<"list">>
        /\ pc \in {"gsi_check", "build_jobs"} => ReturnsFound \/ ReturnsCreated
        /\ pc = "raised" =>
              \/ exc = "UserCanceledException" /\ RefusedThen(FALSE) /\ calls = <<"list">>
              \/ exc = "HTTPError" /\ RefusedThen(TRUE) /\ calls = <<"list", "create">>

C10_Witness ==
    /\ ~args.yes /\ EligibleZones # {} /\ pc = "build_jobs"
    /\ ReturnsCreated
    /\ asked[2][2] = "Yes"

\* C11: without args.yes, once the lookup of the project's zones failed with an
\* HTTP error, the destination is fetched as a landing zone, nobody is asked
\* anything and no zone is created; the fetched path is returned with the
\* destination as uuid, and without a fetched path ParameterException is raised.
C11_FallsBackToZoneUuid ==
    (~args.yes /\ not_project_uuid) =>
        /\ asked = <<>>
        /\ pc = "gsi_by_uuid" => calls = <<"list">>
        /\ pc # "gsi_by_uuid" =>
              /\ calls = <<"list", "retrieve">>
              /\ lz_uuid = args.destination
              /\ pc \in {"gsi_check", "build_jobs", "raised"}
        /\ pc = "build_jobs" => lz_irods_path = IrodsPathOf(args.destination)
        /\ pc = "raised" => exc = "ParameterException" /\ lz_irods_path = None

C11_Witness ==
    /\ ~args.yes /\ not_project_uuid
    /\ pc = "build_jobs"
    /\ lz_uuid = args.destination /\ lz_irods_path = IrodsPathOf(args.destination)
    /\ \E i \in DOMAIN server_zones : server_zones[i].sodar_uuid = args.destination


\* C12 as claimed: a destination that is no identifier makes the resolution fail
\* with InvalidDestinationError, with no remote call and no question.
C12_InvalidDestinationError ==
    ~is_uuid(args.destination) =>
        /\ calls = <<>> /\ asked = <<>>
        /\ pc \in {"get_sodar_info", "gsi_check", "raised"}
        /\ pc = "raised" => exc = "InvalidDestinationError"

\* C12 as amended: a destination that is no identifier makes the resolution fail
\* with ParameterException, the error of an identifier that resolves to nothing,
\* with no remote call and no question.
C12_ParameterException ==
    ~is_uuid(args.destination) =>
        /\ calls = <<>> /\ asked = <<>>
        /\ pc \in {"get_sodar_info", "gsi_check", "raised"}
        /\ pc = "raised" => exc = "ParameterException" /\ lz_irods_path = None

C12_Witness ==
    /\ ~is_uuid(args.destination)
    /\ pc = "raised" /\ exc = "ParameterException"
    /\ calls = <<>> /\ asked = <<>>
    /\ server_zones # <<>>

\* C13: a landing zone that exists on the service and that get_sodar_info returns
\* has status ACTIVE or FAILED, whichever way it was found.
C13_ReturnedZoneEligible ==
    pc = "build_jobs" =>
        \A i \in DOMAIN server_zones :
            server_zones[i].sodar_uuid = lz_uuid =>
                server_zones[i].status \in {"ACTIVE", "FAILED"}

(***************************************************************************)
(* Properties of the transfer.                                             *)
(***************************************************************************)
JobIds == DOMAIN stat

\* C1: whatever num_parallel_transfers is, execute() does not reach "All done"
\* when the transfer of some job failed on every attempt.
C1_FailureSurfaced ==
    pc = "done" => \A j \in JobIds : stat[j].state # "error"

InCriticalSection == {w \in DOMAIN threads : threads[w].pc \in {"read_value", "write_value"}}

\* C3: with workers, at most one of them is between the read and the write of
\* "counter.value += job.bytes", and once every job has succeeded the counter is
\* the sum of the sizes of the jobs.
C3_NoLostIncrement ==
    args.num_parallel_transfers > 0 =>
        /\ Cardinality(InCriticalSection) <= 1
        /\ InCriticalSection \subseteq counter.lock
        /\ (JobIds # {} /\ \A j \in JobIds : stat[j].state = "ok") =>
              counter.value = SumBytes(transfer_jobs)

C3_Witness ==
    \E v, w \in DOMAIN threads :
        /\ threads[v].pc = "write_value"
        /\ threads[w].pc = "get_lock"
        /\ counter.value > 0

RECURSIVE Increasing(_)
Increasing(s) == Len(s) <= 1 \/ (s[1] < s[2] /\ Increasing(Tail(s)))

\* C4: with workers, every job is handed to the pool once, in the order of the
\* sorted JobSet; no job is started twice or run by two workers; and once
\* pool.join() has returned every job has been started.
C4_EveryJobStartedOnce ==
    (args.num_parallel_transfers > 0 /\ pc # "transfer") =>
        /\ \A j \in JobIds : stat[j].applied <= 1 /\ stat[j].starts <= stat[j].applied
        /\ \A i, j \in JobIds : (i < j /\ stat[j].applied = 1) => stat[i].applied = 1
        /\ Increasing(pool.taskqueue)
        /\ \A i, j \in JobIds : i < j => JobLess(transfer_jobs[i], transfer_jobs[j])
        /\ \A v, w \in DOMAIN threads :
              (v # w /\ threads[v].job # NoJob) => threads[v].job # threads[w].job
        /\ pc \in {"join", "move", "done", "raised"} => \A j \in JobIds : stat[j].applied = 1
        /\ pc \in {"move", "done", "raised"} => \A j \in JobIds : stat[j].starts = 1

C4_Witness ==
    /\ args.num_parallel_transfers > 1
    /\ pc = "move"
    /\ Len(transfer_jobs) > 2
    /\ \A j \in JobIds : stat[j].starts = 1

\* C5: without workers the jobs run one at a time in the order of the JobSet, a
\* job starting only after those before it succeeded; when job k fails on every
\* attempt the error leaves execute(), no later job is started and the counter
\* is the sum of the sizes of the jobs before k.
C5_SequentialInOrder ==
    args.num_parallel_transfers = 0 =>
        /\ \A i, j \in JobIds : (i < j /\ stat[j].state # "new") => stat[i].state = "ok"
        /\ \A k \in JobIds : stat[k].state = "error" =>
              /\ pc = "raised" /\ exc = "SubprocessError"
              /\ \A j \in JobIds : j > k => stat[j].state = "new" /\ stat[j].imkdir = 0
              /\ counter.value = SumBytes(SubSeq(transfer_jobs, 1, k - 1))

C5_Witness ==
    /\ args.num_parallel_transfers = 0
    /\ \E k \in JobIds : k > 1 /\ stat[k].state = "error" /\ counter.value > 0

\* C6 as claimed: imkdir, ils and irsync are each invoked at most five times for
\* one job.
C6_EachCallAtMostCeiling ==
    \A j \in JobIds :
        /\ stat[j].imkdir <= stop_max_attempt_number
        /\ stat[j].ils <= stop_max_attempt_number
        /\ stat[j].irsync <= stop_max_attempt_number

\* C6 as amended: for one job imkdir and irsync are invoked at most five times
\* each, once per attempt of the job; ils at most five times per attempt of the
\* job; and the job ends in failure only after its fifth attempt.
C6_CallsBoundedPerAttempt ==
    \A j \in JobIds :
        /\ stat[j].imkdir <= stop_max_attempt_number
        /\ stat[j].irsync <= stat[j].imkdir
        /\ stat[j].ils <= ils_stop_max_attempt_number * stat[j].imkdir
        /\ stat[j].state = "error" =>
              /\ stat[j].imkdir = stop_max_attempt_number
              /\ \A w \in DOMAIN threads : threads[w].job # j

C6_Witness ==
    \E j \in JobIds : stat[j].ils > stop_max_attempt_number /\ stat[j].imkdir > 1

RECURSIVE SumOk(_, _)
SumOk(st, jobs) ==
    IF jobs = <<>> THEN 0
    ELSE (IF st[Len(jobs)].state = "ok" THEN jobs[Len(jobs)].bytes ELSE 0)
         + SumOk(st, SubSeq(jobs, 1, Len(jobs) - 1))

\* C7: a job is given up only after its fifth attempt, so one that fails fewer
\* times and then succeeds ends as a success; its bytes are added once, by the
\* attempt that succeeded, and a job that has not succeeded has added nothing.
C7_RetriedJobCountedOnce ==
    /\ \A j \in JobIds :
        /\ stat[j].state = "error" => stat[j].imkdir = stop_max_attempt_number
        /\ stat[j].state = "ok" => stat[j].added = 1
        /\ stat[j].state # "ok" => stat[j].added = 0
    /\ JobIds # {} => counter.value = SumOk(stat, transfer_jobs)

C7_Witness ==
    \E j \in JobIds :
        /\ stat[j].state = "ok" /\ stat[j].imkdir = 3 /\ stat[j].irsync = 3
        /\ stat[j].added = 1
        /\ counter.value = SumOk(stat, transfer_jobs)

(***************************************************************************)
(* Properties of a whole run.                                              *)
(***************************************************************************)
DeclinedToCreate ==
    /\ asked # <<>>
    /\ asked[Len(asked)][1] = "create"
    /\ ~Accepts(asked[Len(asked)][2])

\* C9: when the user declines to create a landing zone, get_sodar_info raises
\* UserCanceledException, no creation call has been made, and no job is built,
\* no checksum computed and no transfer started in that run.
C9_DeclineRunsNothing ==
    DeclinedToCreate =>
        /\ pc = "raised" /\ exc = "UserCanceledException"
        /\ Count(calls, "create") = 0
        /\ transfer_jobs = <<>> /\ md5_stat = <<>> /\ stat = <<>>
        /\ \A w \in DOMAIN threads : threads[w].pc = "idle"

C9_Witness ==
    /\ DeclinedToCreate
    /\ Len(asked) = 2
    /\ lz_irods_path # None
    /\ \E q \in DOMAIN fs : ~EndsWithMd5(q) /\ Exists(fs, Md5Of(q))
    /\ pc = "raised"

\* The positions of execute() after get_sodar_info returned.
Resolved ==
    pc \in {"build_jobs", "fix_md5", "md5_for_job", "md5_apply_async", "md5_join",
            "transfer", "for_job", "apply_async", "join", "move", "done"}

\* Every job of the JobSet has been run to its end and no thread runs one.
TransferOver ==
    /\ DOMAIN stat = DOMAIN transfer_jobs
    /\ \A j \in DOMAIN stat : stat[j].state \in {"ok", "error"}
    /\ \A w \in DOMAIN threads : threads[w].pc = "idle"
    /\ pool.taskqueue = <<>>

\* C14: when get_sodar_info has returned, the destination was an identifier and
\* neither the uuid nor the path is None; submit_move is called at most once, only
\* with a uuid and with args.validate_and_move set, and only once the transfer of
\* every job has ended.
C14_UuidAndMove ==
    /\ Resolved =>
          lz_uuid # None /\ lz_irods_path # None /\ is_uuid(args.destination)
    /\ Count(calls, "submit_move") <= 1
    /\ Count(calls, "submit_move") = 1 =>
          /\ calls[Len(calls)] = "submit_move"
          /\ lz_uuid # None /\ args.validate_and_move
          /\ pc \in {"done", "raised"}
          /\ TransferOver

C14_Witness ==
    /\ pc = "done"
    /\ Count(calls, "submit_move") = 1
    /\ transfer_jobs # <<>>
    /\ \A j \in DOMAIN stat : stat[j].state = "ok"

\* C15: when build_jobs fails with MissingFileException no remote call has been
\* made: no list, retrieve or create call and no imkdir, ils or irsync.
C15_BuildErrorBeforeNetwork ==
    (pc = "raised" /\ exc = "MissingFileException") =>
        /\ calls = <<>>
        /\ stat = <<>>

(***************************************************************************)
(* Properties of the jobs and of the sidecars.                             *)
(***************************************************************************)
DataFiles(files) == {q \in DOMAIN files : ~EndsWithMd5(q)}

JobsFor(path) == {i \in DOMAIN transfer_jobs : transfer_jobs[i].path_src = path}

\* The JobSet holds one job for every data file and one for its sidecar, and
\* nothing else.
TwoJobsPerDataFile ==
    /\ Len(transfer_jobs) = 2 * Cardinality(DataFiles(fs))
    /\ \A q \in DataFiles(fs) :
          Cardinality(JobsFor(q)) = 1 /\ Cardinality(JobsFor(Md5Of(q))) = 1

PastFixMd5 == pc \in {"transfer", "for_job", "apply_async", "join", "move", "done"}

\* C16: with fix_md5_files, build_jobs gives two jobs per data file, the job of
\* a sidecar that is missing with size 0; when _execute_md5_files_fix has
\* returned every sidecar is on disk, every job that was pending is in the
\* JobSet with its source, destination and command and with the size the sidecar
\* has on disk, and the JobSet is sorted.
C16_SidecarsMadeAndSized ==
    fix_md5_files =>
        /\ pc = "fix_md5" =>
              /\ TwoJobsPerDataFile
              /\ \A i \in DOMAIN transfer_jobs :
                    ~Exists(fs, transfer_jobs[i].path_src) => transfer_jobs[i].bytes = 0
        /\ PastFixMd5 =>
              /\ TwoJobsPerDataFile
              /\ \A q \in DataFiles(fs) : Exists(fs, Md5Of(q))
              /\ \A i \in DOMAIN transfer_jobs :
                    transfer_jobs[i].bytes = GetSize(fs, transfer_jobs[i].path_src)
              /\ \A k \in DOMAIN todo_jobs :
                    /\ todo_jobs[k].bytes = 0
                    /\ \E i \in DOMAIN transfer_jobs :
                          /\ transfer_jobs[i].path_src = todo_jobs[k].path_src
                          /\ transfer_jobs[i].path_dest = todo_jobs[k].path_dest
                          /\ transfer_jobs[i].command = todo_jobs[k].command
                          /\ transfer_jobs[i].bytes = Md5Bytes
              /\ \A i, j \in DOMAIN transfer_jobs :
                    i < j => JobLess(transfer_jobs[i], transfer_jobs[j])

C16_Witness ==
    /\ fix_md5_files
    /\ pc = "transfer"
    /\ Len(todo_jobs) = 1 /\ Len(ok_jobs) = 3
    /\ args.num_parallel_transfers > 0

\* C17: without fix_md5_files, when some data file has no sidecar build_jobs
\* raises MissingFileException and no job of any file, complete or not, is
\* returned or run.
C17_MissingSidecarNoJobSet ==
    (~fix_md5_files /\ \E q \in DataFiles(fs) : ~Exists(fs, Md5Of(q))) =>
        /\ pc \in {"build_jobs", "raised"}
        /\ pc = "raised" => exc = "MissingFileException"
        /\ transfer_jobs = <<>> /\ todo_jobs = <<>> /\ stat = <<>>

C17_Witness ==
    /\ ~fix_md5_files
    /\ pc = "raised" /\ exc = "MissingFileException"
    /\ \E p, q \in DataFiles(fs) :
          /\ TupleLess(p, q)
          /\ Exists(fs, Md5Of(p))
          /\ ~Exists(fs, Md5Of(q))

(***************************************************************************)
(* Properties of the failure of md5sum.                                    *)
(***************************************************************************)
Md5Failed == {k \in DOMAIN md5_stat : md5_stat[k].state = "error"}

RECURSIVE SumMd5Ok(_, _, _)
SumMd5Ok(files, st, jobs) ==
    IF jobs = <<>> THEN 0
    ELSE (IF st[Len(jobs)].state = "ok"
          THEN GetSize(files, DataOf(jobs[Len(jobs)].path_src)) ELSE 0)
         + SumMd5Ok(files, st, SubSeq(jobs, 1, Len(jobs) - 1))

\* The sidecar of a job whose md5sum failed is gone, md5sum ran once for it, and
\* it added nothing to the counter of the checksum phase.
FailedMd5LeavesNothing ==
    \A k \in Md5Failed :
        /\ ~Exists(fs, todo_jobs[k].path_src)
        /\ md5_stat[k].md5sum = 1
        /\ md5_stat[k].added = 0
        /\ counter.value = SumMd5Ok(fs, md5_stat, todo_jobs)

C19_FailureFatalForOneJobOnly ==
    Md5Failed # {} => pc # "raised"

(***************************************************************************)
(* Properties of the two phases.                                           *)
(***************************************************************************)
InComputeMd5Sum ==
    {w \in DOMAIN threads :
        threads[w].pc \in {"md5_open", "md5sum", "md5_get_lock", "md5_read_value",
                           "md5_write_value"}}

InIrsyncTransfer ==
    {w \in DOMAIN threads :
        threads[w].pc \in {"imkdir", "ils", "irsync", "get_lock", "read_value",
                           "write_value"}}

\* C20: whatever num_parallel_transfers is, while a thread runs irsync_transfer,
\* or once a job has been handed over or an imkdir, ils or irsync run for it,
\* every compute_md5sum of the run has returned: none is running or waiting in
\* the queue, and every sidecar it was to make is on disk.
C20_Md5BeforeTransfer ==
    (\/ InIrsyncTransfer # {}
     \/ \E j \in DOMAIN stat : stat[j].state # "new") =>
        /\ InComputeMd5Sum = {}
        /\ \A k \in DOMAIN md5_stat :
              /\ md5_stat[k].state = "ok"
              /\ md5_stat[k].starts = 1 /\ md5_stat[k].md5sum = 1
              /\ GetSize(fs, todo_jobs[k].path_src) = Md5Bytes
        /\ PastFixMd5 \/ pc = "raised"

C20_Witness ==
    /\ fix_md5_files
    /\ args.num_parallel_transfers > 1
    /\ Len(md5_stat) > 1
    /\ Cardinality(InIrsyncTransfer) > 1

(***************************************************************************)
(* Properties of irsync_transfer and of the counters.                      *)
(***************************************************************************)
\* The number of ils calls made for job j in the attempt that thread w is at.
IlsInAttempt(w) ==
    IF threads[w].pc = "ils" THEN threads[w].ils_attempt - 1 ELSE threads[w].ils_attempt

\* C27: for the job a thread runs, in its attempt number a: imkdir has been
\* called a times when the thread is past imkdir and a - 1 times before; ils is
\* only called past a successful imkdir; irsync has not been called in this
\* attempt until imkdir and then ils succeeded in it; and the bytes of the job
\* are added only past a successful irsync, never for a job that is not past it.
C27_MkdirThenIlsThenIrsync ==
    /\ \A w \in InIrsyncTransfer :
          LET j == threads[w].job
              a == threads[w].attempt
          IN /\ stat[j].imkdir = (IF threads[w].pc = "imkdir" THEN a - 1 ELSE a)
             /\ stat[j].ils >= IlsInAttempt(w)
             /\ threads[w].pc = "imkdir" => threads[w].ils_attempt = 0
             /\ threads[w].pc \in {"imkdir", "ils", "irsync"} =>
                   stat[j].irsync <= a - 1 /\ stat[j].added = 0
             /\ threads[w].pc \in {"irsync", "get_lock", "read_value", "write_value"} =>
                   IlsInAttempt(w) >= 1
             /\ threads[w].pc \in {"get_lock", "read_value", "write_value"} =>
                   stat[j].irsync >= 1 /\ stat[j].irsync <= a /\ stat[j].added = 0
    /\ \A j \in DOMAIN stat :
          /\ stat[j].irsync <= stat[j].ils /\ stat[j].irsync <= stat[j].imkdir
          /\ stat[j].ils > 0 => stat[j].imkdir > 0
          /\ stat[j].added > 0 => stat[j].irsync > 0 /\ stat[j].state = "ok"

C27_Witness ==
    \E w \in InIrsyncTransfer :
        /\ threads[w].pc = "write_value"
        /\ threads[w].attempt = 2
        /\ stat[threads[w].job].imkdir = 2
        /\ stat[threads[w].job].ils = 3
        /\ stat[threads[w].job].irsync = 2

\* The counter of the transfer is what the jobs that succeeded so far weigh.
CounterIsSumOk == stat # <<>> => counter.value = SumOk(stat, transfer_jobs)

\* While the transfer runs the counter does not go down.
CounterGrows == (stat # <<>> /\ stat' # <<>>) => counter'.value >= counter.value

\* C28: the counter of the transfer starts at 0 whatever the checksum phase
\* counted, never decreases, and is at every moment the sum of the sizes of the
\* jobs whose transfer has succeeded; a failed job adds nothing.
C28_CounterOfTheRun ==
    /\ [](CounterIsSumOk /\ (pc = "transfer" => stat = <<>>))
    /\ [][CounterGrows]_vars
    /\ [][(stat = <<>> /\ stat' # <<>>) => counter'.value = 0]_vars

C28_Witness ==
    /\ \E k \in DOMAIN md5_stat : md5_stat[k].added = 1
    /\ \E j \in DOMAIN stat : stat[j].state = "error" /\ stat[j].added = 0
    /\ \E j \in DOMAIN stat : stat[j].state = "ok"
    /\ counter.value > 0
    /\ counter.value = SumOk(stat, transfer_jobs)
    /\ counter.value < SumDataSizes(fs, todo_jobs) + Md5Bytes

\* C29: when _execute_md5_files_fix has returned, every pending job having got
\* its sidecar, the counter of that phase is the sum of the sizes of the data
\* files of the pending jobs, not of the sidecars, and that sum is the total the
\* progress bar of the phase was given.
C29_Md5CounterIsDataBytes ==
    (fix_md5_files /\ pc = "transfer") =>
        /\ \A k \in DOMAIN md5_stat : md5_stat[k].state = "ok"
        /\ counter.value = SumDataSizes(fs, todo_jobs)
        /\ t.total = SumDataSizes(fs, todo_jobs)

C29_Witness ==
    /\ fix_md5_files /\ pc = "transfer"
    /\ Len(todo_jobs) = 2
    /\ \A k \in DOMAIN todo_jobs : GetSize(fs, todo_jobs[k].path_src) = Md5Bytes
    /\ counter.value = 5
    /\ args.num_parallel_transfers = 2

(***************************************************************************)
(* Properties of the builders of jobs.                                     *)
(***************************************************************************)
BlueprintMode == "transfer_blueprint" \in DOMAIN args
IngestMode == "collection" \in DOMAIN args
PatternMode == ~BlueprintMode /\ ~IngestMode

DestKey(job) == IF BlueprintMode THEN job.path_dest ELSE job.path_dest.rel

SameSrcDest(a, b) == a.path_src = b.path_src /\ a.path_dest = b.path_dest

SrcDestLessEq(a, b) ==
    \/ SameSrcDest(a, b)
    \/ TupleLess(a.path_src, b.path_src)
    \/ a.path_src = b.path_src /\ TupleLess(DestKey(a), DestKey(b))

SortedBySrcDest(jobs) ==
    \A i, j \in DOMAIN jobs : i < j => SrcDestLessEq(jobs[i], jobs[j])

Reversed(s) == [i \in DOMAIN s |-> s[Len(s) + 1 - i]]

\* C21: the jobs are at every moment sorted by (path_src, path_dest), as
\* build_jobs of each of the three commands and _execute_md5_files_fix return
\* them; what build_jobs returned is what it returns for every order in which
\* glob may list the files, and for the blocks of the blueprint taken from the
\* last to the first; what _execute_md5_files_fix returned is what build_jobs
\* returns for the files there are then, in every order.
C21_SortedAndDeterministic ==
    /\ SortedBySrcDest(transfer_jobs)
    /\ (PatternMode /\ pc \in {"fix_md5", "transfer"}) =>
          \A results \in GlobOrders(fs, library_names) :
              transfer_jobs = Sorted(AppendJobs(fs, results, lz_irods_path))
    /\ (BlueprintMode /\ pc = "bp_fix_md5") =>
          transfer_jobs =
              BpSorted(BpAppendJobs(fs, st_mtime, Reversed(args.transfer_blueprint),
                                    args.irods_dest).jobs)
    /\ (IngestMode /\ pc = "ingest_transfer") =>
          \A results \in Orders({q \in DOMAIN fs : ~EndsWithMd5(q)}) :
              LET listed == IngestSourcePaths(fs, results) IN
              transfer_jobs =
                  Sorted([i \in DOMAIN listed |->
                             IngestJob(fs, listed[i], lz_irods_path, args.collection)])

C21_Witness ==
    /\ BlueprintMode /\ pc = "bp_fix_md5"
    /\ Len(transfer_jobs) = 4
    /\ transfer_jobs # BpAppendJobs(fs, st_mtime, args.transfer_blueprint, args.irods_dest).jobs
    /\ transfer_jobs[1].path_src # transfer_jobs[3].path_src

\* C22: no two jobs have the same path_src and the same path_dest.
C22_DuplicateFree ==
    \A i, j \in DOMAIN transfer_jobs :
        i # j => ~SameSrcDest(transfer_jobs[i], transfer_jobs[j])

\* The words of a job's command.
CommandWords(job) == RangeOf(WordsOf(job.command))

\* C23: when the blueprint's build_jobs has returned, no path_dest and no word
\* of a command holds the placeholder.
C23_NoPlaceholderLeft ==
    (BlueprintMode /\ pc = "bp_fix_md5") =>
        \A i \in DOMAIN transfer_jobs :
            /\ transfer_jobs[i].path_dest[1] # Placeholder
            /\ \A word \in CommandWords(transfer_jobs[i]) :
                  word[1] \in {2, 3, 12, 13} => word[2] # Placeholder

C23_Witness ==
    /\ BlueprintMode /\ pc = "bp_fix_md5"
    /\ Len(transfer_jobs) = 4
    /\ \E k \in DOMAIN args.transfer_blueprint :
          BareDest(1) \in RangeOf(WordsOf(args.transfer_blueprint[k]))
    /\ \E i \in DOMAIN transfer_jobs :
          <<3, args.irods_dest, 1, 0>> \in CommandWords(transfer_jobs[i])

\* The existing source files a block names.
SourceFilesOf(files, cmd_block) ==
    {word \in RangeOf(WordsOf(cmd_block)) : word[1] = 1 /\ Exists(files, PathOfWord(word))}

\* A block that is not empty and has no or several source files, or no or
\* several destination tokens.
BadBlock(files, cmd_block) ==
    /\ ~IsEmptyBlock(cmd_block)
    /\ \/ Cardinality(SourceFilesOf(files, cmd_block)) # 1
       \/ Cardinality(RangeOf(DestsOf(cmd_block))) # 1

\* C24: a blueprint with a block that has no or several source files, or no or
\* several destination tokens, makes build_jobs raise ValueError, and no job is
\* built.
C24_BadBlockRejected ==
    (BlueprintMode /\ pc # "bp_build_jobs") =>
        ((\E k \in DOMAIN args.transfer_blueprint : BadBlock(fs, args.transfer_blueprint[k]))
            => (pc = "raised" /\ exc = "ValueError" /\ transfer_jobs = <<>>))

\* What the loop of lines 83-90 lets pass.
PassesBlock(files, cmd_block) ==
    \/ IsEmptyBlock(cmd_block)
    \/ ~NotExactlyOne(SourcesOf(files, cmd_block)) /\ ~NotExactlyOne(DestsOf(cmd_block))

\* The block's source was modified after the blueprint.
NewerSource(files, mtimes, cmd_block) ==
    /\ ~IsEmptyBlock(cmd_block)
    /\ PassesBlock(files, cmd_block)
    /\ mtimes[PathOfWord(SourcesOf(files, cmd_block)[1])] > mtimes[BlueprintFile]

SourceIsMd5(files, cmd_block) ==
    /\ ~IsEmptyBlock(cmd_block)
    /\ PassesBlock(files, cmd_block)
    /\ SourcesOf(files, cmd_block)[1][1] = 1
    /\ EndsWithMd5(PathOfWord(SourcesOf(files, cmd_block)[1]))

Rejected == pc = "raised" /\ exc = "ValueError" /\ transfer_jobs = <<>>

\* C25 as stated: a block whose source is newer than the blueprint makes
\* build_jobs raise ValueError, whatever the source is.
C25_NewerSourceRejected ==
    (BlueprintMode /\ pc # "bp_build_jobs") =>
        ((\E k \in DOMAIN args.transfer_blueprint :
             NewerSource(fs, st_mtime, args.transfer_blueprint[k])) => Rejected)

\* C25: a block whose source is not a ".md5" file and is newer than the
\* blueprint makes build_jobs raise ValueError, and no job is built; when every
\* block passes lines 83-90 and every source that is not a ".md5" file is as
\* old as the blueprint or older, build_jobs returns.
C25_NewerDataSourceRejected ==
    (BlueprintMode /\ pc # "bp_build_jobs") =>
        LET blocks == args.transfer_blueprint IN
        /\ (\E k \in DOMAIN blocks :
               NewerSource(fs, st_mtime, blocks[k]) /\ ~SourceIsMd5(fs, blocks[k]))
             => Rejected
        /\ (\A k \in DOMAIN blocks :
               /\ PassesBlock(fs, blocks[k])
               /\ NewerSource(fs, st_mtime, blocks[k]) => SourceIsMd5(fs, blocks[k]))
             => (pc = "bp_fix_md5" /\ exc = None)

C25_Witness ==
    /\ BlueprintMode /\ pc = "bp_fix_md5"
    /\ Len(transfer_jobs) = 2
    /\ Len(args.transfer_blueprint) = 2
    /\ \E k \in DOMAIN args.transfer_blueprint :
          /\ NewerSource(fs, st_mtime, args.transfer_blueprint[k])
          /\ SourceIsMd5(fs, args.transfer_blueprint[k])
    /\ \E k \in DOMAIN args.transfer_blueprint :
          /\ ~SourceIsMd5(fs, args.transfer_blueprint[k])
          /\ st_mtime[PathOfWord(SourcesOf(fs, args.transfer_blueprint[k])[1])]
                = st_mtime[BlueprintFile]

\* The blocks that give jobs: not empty, the source not a ".md5" file.
JobBlocks(files, blocks) ==
    {k \in DOMAIN blocks : ~IsEmptyBlock(blocks[k]) /\ ~SourceIsMd5(files, blocks[k])}

\* The job of (source + ext, dest + ext) of a block, dest with the collection.
IsJobOf(files, job, cmd_block, irods_dest, ext) ==
    LET source == SourcesOf(files, cmd_block)[1]
        dest == DestsOf(cmd_block)[1]
    IN /\ job.path_src = <<source[2], source[3], source[4] + ext>>
       /\ job.path_dest = <<irods_dest, dest[3], dest[4] + ext>>

\* C26: when the blueprint's build_jobs has returned there are two jobs per
\* block whose source is not a ".md5" file, (source, dest) and (source + ".md5",
\* dest + ".md5"), and no other job: none for a block whose source is a ".md5"
\* file.
C26_TwoJobsPerDataBlock ==
    (BlueprintMode /\ pc = "bp_fix_md5") =>
        LET blocks == args.transfer_blueprint
            giving == JobBlocks(fs, blocks)
        IN /\ Len(transfer_jobs) = 2 * Cardinality(giving)
           /\ \A k \in giving : \A ext \in {0, 1} :
                 \E i \in DOMAIN transfer_jobs :
                     IsJobOf(fs, transfer_jobs[i], blocks[k], args.irods_dest, ext)
           /\ \A i \in DOMAIN transfer_jobs : \E k \in giving : \E ext \in {0, 1} :
                 IsJobOf(fs, transfer_jobs[i], blocks[k], args.irods_dest, ext)

C26_Witness ==
    /\ BlueprintMode /\ pc = "bp_fix_md5"
    /\ args.transfer_blueprint = <<<<PutMd5Line(1)>>, <<PutLine(1)>>>>
    /\ Len(transfer_jobs) = 2
    /\ transfer_jobs[1].path_src = <<1, 1, 0>>
    /\ transfer_jobs[2].path_src = <<1, 1, 1>>
    /\ transfer_jobs[2].bytes = Md5Bytes

(***************************************************************************)
(* Properties of the transfer of the blueprint-driven command.             *)
(***************************************************************************)
\* C30: a job's bytes are in the counter only when every command of the job
\* has been run, each of them once and by the thread that then added the bytes.
C30_CommandsRunBeforeBytes ==
    \A j \in DOMAIN stat :
        stat[j].added > 0 => stat[j].executed = Len(transfer_jobs[j].command)

(***************************************************************************)
(* Properties of the pool, the move, the progress bar and the plan.        *)
(***************************************************************************)
RunningJobs(st) == {j \in DOMAIN st : st[j].state = "running"}

BusyWorkers == {w \in Workers : threads[w].pc # "idle"}

\* C31: with a pool of N workers at most N jobs are being run at any time, of
\* those of the checksum phase and of those of the transfer; every job that is
\* being run is the job of one worker, and the others wait in the pool's queue.
C31_AtMostNJobsAtOnce ==
    args.num_parallel_transfers > 0 =>
        /\ Cardinality(RunningJobs(stat)) + Cardinality(RunningJobs(md5_stat))
              <= args.num_parallel_transfers
        /\ Cardinality(RunningJobs(stat)) + Cardinality(RunningJobs(md5_stat))
              = Cardinality(BusyWorkers)
        /\ \A w \in BusyWorkers :
              threads[w].job \in RunningJobs(stat) \cup RunningJobs(md5_stat)
        /\ \A i \in DOMAIN pool.taskqueue :
              pool.taskqueue[i] \notin RunningJobs(IF stat = <<>> THEN md5_stat ELSE stat)

C31_Witness ==
    /\ args.num_parallel_transfers = 2
    /\ Cardinality(RunningJobs(stat)) = 2
    /\ Len(pool.taskqueue) = 2
    /\ \E k \in DOMAIN md5_stat : md5_stat[k].state = "ok"

(***************************************************************************)
(* More properties of the resolution of the landing zone.                  *)
(***************************************************************************)
\* C32: with args.yes the destination is never fetched as a landing zone and
\* nobody is asked anything; a destination that is an identifier but not the
\* project's makes the lookup fail and nothing is returned; and whenever the
\* resolution of an identifier ends with an error it is the HTTP error of the
\* lookup or of the creation, with no path.
C32_YesHttpErrorRaised ==
    args.yes =>
        /\ asked = <<>>
        /\ Count(calls, "retrieve") = 0
        /\ pc \notin {"gsi_latest", "gsi_by_uuid", "gsi_ask_use", "gsi_ask_create", "gsi_create"}
        /\ (is_uuid(args.destination) /\ args.destination # ProjectUuid) => pc # "build_jobs"
        /\ (is_uuid(args.destination) /\ pc = "raised") =>
              /\ exc = "HTTPError"
              /\ lz_irods_path = None
              /\ calls \in {<<"list">>, <<"list", "create">>}

C32_Witness ==
    /\ args.yes
    /\ pc = "raised" /\ exc = "HTTPError"
    /\ calls = <<"list">>
    /\ \E i \in DOMAIN server_zones :
          server_zones[i].sodar_uuid = args.destination /\ server_zones[i].status = "ACTIVE"

\* The lookup of the project's zones answered, and no zone of it is eligible.
LookedUpNoZone ==
    /\ ~args.yes
    /\ calls # <<>> /\ calls[1] = "list" /\ ~not_project_uuid
    /\ EligibleZones = {}

\* C33: without args.yes, once the lookup has answered with no eligible zone,
\* the only question is the one about creating a zone, asked once; accepted,
\* exactly one creation call is made and a result is the created zone (a
\* failing creation ends with its HTTP error); refused, no creation call is
\* made and UserCanceledException is raised.
C33_NoZoneAskedOnceToCreate ==
    LookedUpNoZone =>
        /\ pc \in {"gsi_ask_create", "gsi_create", "gsi_check", "build_jobs", "raised"}
        /\ asked = <<>> <=> pc = "gsi_ask_create"
        /\ pc # "gsi_ask_create" => Len(asked) = 1 /\ asked[1][1] = "create"
        /\ pc = "gsi_create" => Accepts(asked[1][2]) /\ calls = <<"list">>
        /\ pc \in {"gsi_check", "build_jobs"} =>
              /\ Accepts(asked[1][2])
              /\ calls = <<"list", "create">>
              /\ lz_uuid = CreatedUuid /\ lz_irods_path = IrodsPathOf(CreatedUuid)
        /\ pc = "raised" =>
              \/ ~Accepts(asked[1][2]) /\ exc = "UserCanceledException" /\ calls = <<"list">>
              \/ Accepts(asked[1][2]) /\ exc = "HTTPError" /\ calls = <<"list", "create">>

C33_Witness ==
    /\ LookedUpNoZone
    /\ server_zones # <<>>
    /\ pc = "build_jobs"
    /\ asked = <<<<"create", "Yes">>>>
    /\ calls = <<"list", "create">>
    /\ lz_uuid = CreatedUuid

\* C34: whatever the destination, args.yes, the answers and the outcomes of
\* the remote calls, one resolution makes at most one creation call, at most
\* one lookup and one retrieval, asks at most two questions, the second one
\* only about creating after the first about using, and asks nothing with
\* args.yes.
C34_BoundedCallsAndQuestions ==
    /\ Count(calls, "create") <= 1
    /\ Count(calls, "list") <= 1
    /\ Count(calls, "retrieve") <= 1
    /\ Len(asked) <= 2
    /\ Len(asked) = 2 => asked[1][1] = "use" /\ asked[2][1] = "create"
    /\ args.yes => asked = <<>>

C34_Witness ==
    /\ Len(asked) = 2
    /\ Count(calls, "create") = 1
    /\ Count(calls, "retrieve") = 0
    /\ pc = "build_jobs"

(***************************************************************************)
(* The move of the landing zone and the progress display.                  *)
(***************************************************************************)
\* C35: the request to validate and move the landing zone is not sent when
\* the transfer of some job failed on every attempt, whatever
\* num_parallel_transfers is.
C35_NoMoveAfterFailure ==
    Count(calls, "submit_move") > 0 => \A j \in JobIds : stat[j].state # "error"

\* C36: during the transfer the amount the progress display has been given
\* (the sum of the arguments of t.update) is never more than total_bytes, and
\* once every job has succeeded it is the value of the counter.
C36_ProgressWithinTotal ==
    stat # <<>> =>
        /\ t.n <= total_bytes
        /\ (\A j \in JobIds : stat[j].state = "ok") => t.n = counter.value

(***************************************************************************)
(* The plan across the checksum step.                                      *)
(***************************************************************************)
\* The jobs of a sequence as a bag.
BagOfJobs(jobs) ==
    [j \in {jobs[i] : i \in DOMAIN jobs} |-> Cardinality({i \in DOMAIN jobs : jobs[i] = j})]

\* A job without its size.
Unsized(jobs) ==
    [i \in DOMAIN jobs |->
        [path_src |-> jobs[i].path_src, path_dest |-> jobs[i].path_dest,
         command |-> jobs[i].command]]

\* The checksum step has returned its JobSet.
FixMd5Returned == fix_md5_files /\ PastFixMd5 /\ pc # "raised"

\* C37: the JobSet the checksum step returns holds the same (path_src,
\* path_dest, command), as a multiset, as the JobSet it was given; the jobs
\* whose source existed are in it as they were; and what remains of it is the
\* formerly pending jobs, which may differ in their size only.
C37_FixPreservesPlan ==
    FixMd5Returned =>
        /\ BagOfJobs(Unsized(transfer_jobs)) = BagOfJobs(Unsized(todo_jobs \o ok_jobs))
        /\ \A j \in DOMAIN BagOfJobs(ok_jobs) :
              /\ j \in DOMAIN BagOfJobs(transfer_jobs)
              /\ BagOfJobs(ok_jobs)[j] <= BagOfJobs(transfer_jobs)[j]
        /\ \E rest \in Orders({j \in DOMAIN transfer_jobs :
                                   \A k \in DOMAIN ok_jobs : ok_jobs[k] # transfer_jobs[j]}) :
              BagOfJobs(Unsized([i \in DOMAIN rest |-> transfer_jobs[rest[i]]]))
                  = BagOfJobs(Unsized(todo_jobs))

C37_Witness ==
    /\ FixMd5Returned
    /\ ok_jobs # <<>>
    /\ \E k \in DOMAIN todo_jobs : \A j \in DOMAIN transfer_jobs :
          transfer_jobs[j] # todo_jobs[k]

(***************************************************************************)
(* Properties of the ingest command.                                       *)
(***************************************************************************)
\* process_md5_sums is about to return output_paths.
Md5SumsProcessed == pc = "ingest_md5" /\ next_job > Len(source_paths)

\* The data files process_md5_sums was given.
DataFilesGiven == {source_paths[i].spath : i \in {k \in DOMAIN source_paths :
                                                    source_paths[k].spath[3] = 0}}

\* The entries of the returned list that are the ".md5" sidecar of p.
SidecarEntries(p) == {k \in DOMAIN output_paths : output_paths[k].spath = LowerPath(p)}

\* No ".MD5" sidecar of a file that was processed is left.
NoUpperLeft == \A i \in DOMAIN source_paths : ~Exists(fs, UpperPath(source_paths[i].spath))

\* One entry for the sidecar of a data file that has one, none otherwise, and
\* every data file has one with args.checksums.
OneSidecarEntry ==
    \A p \in DataFilesGiven :
        /\ Cardinality(SidecarEntries(p)) = IF Exists(fs, LowerPath(p)) THEN 1 ELSE 0
        /\ args.checksums => Exists(fs, LowerPath(p))

\* One turn of the loop: of both sidecars the ".MD5" one goes and the ".md5"
\* one stays as it was; a ".MD5" sidecar alone becomes the ".md5" one.
UpperNormalised ==
    (pc = "ingest_md5" /\ next_job <= Len(source_paths)) =>
        LET p == source_paths[next_job].spath IN
        /\ ~Exists(fs', UpperPath(p))
        /\ Exists(fs, LowerPath(p)) =>
              Exists(fs', LowerPath(p)) /\ fs'[LowerPath(p)] = fs[LowerPath(p)]
        /\ (Exists(fs, UpperPath(p)) /\ ~Exists(fs, LowerPath(p))) =>
              Exists(fs', LowerPath(p)) /\ fs'[LowerPath(p)] = fs[UpperPath(p)]
        /\ (~Exists(fs, UpperPath(p)) /\ ~Exists(fs, LowerPath(p)) /\ ~args.checksums) =>
              fs' = fs /\ output_paths' = output_paths

\* The first two parts of the property below, which hold.
SidecarsNormalised == [](Md5SumsProcessed => NoUpperLeft) /\ [][UpperNormalised]_vars

\* C38: in process_md5_sums, of a ".MD5" and a ".md5" sidecar the upper-case
\* one is deleted and the other kept, a ".MD5" sidecar alone is renamed, no
\* ".MD5" sidecar of a processed file remains, and the returned list holds
\* one entry for the sidecar of a data file that had one or got one with
\* args.checksums, and none otherwise.
C38_OneSidecarPerDataFile ==
    /\ [](Md5SumsProcessed => (NoUpperLeft /\ OneSidecarEntry))
    /\ [][UpperNormalised]_vars

\* The user types a number of the menu at "Select by number: ".
ListedNumberTyped ==
    /\ pc = "ingest_select" /\ args.collection = None
    /\ isdigit(user_input') /\ int(user_input') \in 1..Len(collections)

\* C39: every number of the menu, 1 to the number of listed collections, is
\* accepted when typed and selects the collection listed under it, so that
\* the selection ends with that input, also with one collection listed.
C39_ListedNumberAccepted ==
    [][ListedNumberTyped =>
          /\ pc' = "ingest_dirs"
          /\ target_coll' = collections[int(user_input')]]_vars

\* The answers given to a question.
AnswersTo(question) == {asked[i][2] : i \in {k \in DOMAIN asked : asked[k][1] = question}}

\* Some question was answered with something else than a yes.
SomeRefusal == \E i \in DOMAIN asked : ~Accepts(asked[i][2])

\* The destination names a landing zone that is neither ACTIVE nor FAILED.
ZoneNotOpen ==
    /\ is_uuid(args.destination)
    /\ \A i \in DOMAIN server_zones :
          server_zones[i].sodar_uuid = args.destination =>
              server_zones[i].status \notin {"ACTIVE", "FAILED"}

\* C40: the ingest command puts a file only with args.yes or after a yes to
\* the question about the transfer, and creates a sub-collection only with
\* args.yes or after a yes to the question about the sub-collections; with
\* args.yes nothing is asked; once an answer was no the run has ended with
\* exit status 0 and no put; and with a destination that names a landing zone
\* neither ACTIVE nor FAILED the run ends with no file listed and none put.
C40_NothingSentUnconfirmed ==
    /\ Count(calls, "put") > 0 =>
          (args.yes \/ \E r \in AnswersTo("transfer") : Accepts(r))
    /\ Count(calls, "collections.create") > 0 =>
          (args.yes \/ \E r \in AnswersTo("dirs") : Accepts(r))
    /\ args.yes => asked = <<>>
    /\ SomeRefusal =>
          /\ pc = "exited" /\ exc = "SystemExit(0)"
          /\ Count(calls, "put") = 0
          /\ ~Accepts(asked[Len(asked)][2])
          /\ AnswersTo("dirs") = {} => Count(calls, "collections.create") = 0
    /\ ZoneNotOpen =>
          /\ pc \in {"ingest_start", "exited"}
          /\ pc = "exited" => exc = "SystemExit(1)"
          /\ source_paths = <<>> /\ transfer_jobs = <<>>
          /\ calls \in {<<>>, <<"retrieve">>}

C40_Witness ==
    /\ ~args.yes /\ args.recursive
    /\ asked = <<<<"dirs", "Yes">>, <<"transfer", "n">>>>
    /\ Count(calls, "collections.create") = 1
    /\ transfer_jobs # <<>>
    /\ pc = "exited"

====
